---- MODULE Spec2Model ----
(***************************************************************************)
(* Finality benchmark.  The module holds one specification per part of    *)
(* the program, each over its own variables, the others held idle:         *)
(*   Spec       the statistics engine (utils/stats, the library used by    *)
(*              the benchmark CLI and by the TypeScript viewer) and the    *)
(*              stand-alone viewer's own calculateStats;                   *)
(*   SpecRun    one adapter run, sequential or parallel, and its summary;  *)
(*   SpecRetry  retry of utils/common, JavaScript and TypeScript;          *)
(*   SpecCsv    resultsToCSV of utils/output;                              *)
(*   SpecSave   saveResults of utils/output and the viewer's readJSON;     *)
(*   SpecTable  printSummaryTable of utils/output and the viewer's         *)
(*              displayTable;                                              *)
(*   SpecMain   main of the benchmark CLI (SpecMainFair: with the weak     *)
(*              fairness of main's own steps);                             *)
(*   SpecView   the viewer's readCSV and displayTable on a .csv report;    *)
(*   SpecAppend appendCSV of utils/output.                                 *)
(*                                                                         *)
(* Numbers.  JavaScript numbers are modelled exactly: a non-integer        *)
(* intermediate value is a fraction [n |-> numerator, d |-> denominator]   *)
(* with d > 0, a square root is kept as the fraction under the root, and   *)
(* Math.round is floor(x + 1/2).  txPerSecond, which the code rounds to    *)
(* two decimals, is held in hundredths (3.33 is 333).                      *)
(*                                                                         *)
(* The doubles of the code agree with the exact values wherever the exact  *)
(* value is not on a rounding boundary (the rounding error is many orders  *)
(* below the distance to the boundary for the values modelled) and         *)
(* wherever it is computed without rounding error (mean, median, standard  *)
(* deviation on a boundary are dyadic).  The one exception is the          *)
(* interpolated percentile: its weight (p/100 * (n-1)) % 1 is not exact,   *)
(* so when the exact interpolation is k + 1/2 the double lies just above   *)
(* or just below it and Math.round yields k + 1 or k.  Both outcomes are   *)
(* kept: calculateStats is the set of summaries the code may return.       *)
(***************************************************************************)
EXTENDS Integers, Sequences, FiniteSets, TLC

\* the statistics engine: one network's bucket and its two reductions
VARIABLES latencies, failures, stats, viewerStats, done

\* one adapter run (runBenchmark of a chain adapter) and its summary
VARIABLES adapter, parallel, numTxs, delayMs, balance, now, pc, txIndex, wake, txs,
          results, attempts, summary

\* one call of retry(fn, maxRetries, baseDelay) of utils/common
VARIABLES rtVersion, maxRetries, baseDelay, rtI, rtPc, rtCalls, rtSleeps,
          rtResult

\* one call of resultsToCSV(results, network) of utils/output
VARIABLES csvNetwork, csvResults, csvContent, csvPc

\* the export: saveResults of utils/output, and the viewer's readJSON
VARIABLES networkResults, outputPath, saveClock, jsonFiles, csvFiles, saves, readBack, savePc

\* one summary table: printSummaryTable of utils/output or displayTable of the viewer
VARIABLES tblProgram, tblRows, tblOutput, tblPc

\* the command line program: main of the benchmark CLI
VARIABLES env, options, networksToRun, netIndex, benchResults, summaryData, events, exitCode, mainPc

\* the viewer reading a .csv report: readCSV and displayTable of view-results
VARIABLES viewer, viewReports, viewContent, viewStats, viewOutput, viewPc

\* one CSV file growing by appendCSV of utils/output
VARIABLES appFile, appExisted, appBlocks, appFlags

statVars == <<latencies, failures, stats, viewerStats, done>>

runVars == <<adapter, parallel, numTxs, delayMs, balance, now, pc, txIndex, wake, txs,
             results, attempts, summary>>

retryVars == <<rtVersion, maxRetries, baseDelay, rtI, rtPc, rtCalls, rtSleeps,
               rtResult>>

csvVars == <<csvNetwork, csvResults, csvContent, csvPc>>

saveVars == <<networkResults, outputPath, saveClock, jsonFiles, csvFiles, saves, readBack, savePc>>

tableVars == <<tblProgram, tblRows, tblOutput, tblPc>>

mainVars == <<env, options, networksToRun, netIndex, benchResults, summaryData, events, exitCode, mainPc>>

viewVars == <<viewer, viewReports, viewContent, viewStats, viewOutput, viewPc>>

appendVars == <<appFile, appExisted, appBlocks, appFlags>>

vars == <<statVars, runVars, retryVars, csvVars, saveVars, tableVars, mainVars, viewVars, appendVars>>

\* the variables each subsystem leaves alone
notStatVars == <<runVars, retryVars, csvVars, saveVars, tableVars, mainVars, viewVars, appendVars>>

notRunVars == <<statVars, retryVars, csvVars, saveVars, tableVars, mainVars, viewVars, appendVars>>

notRetryVars == <<statVars, runVars, csvVars, saveVars, tableVars, mainVars, viewVars, appendVars>>

notCsvVars == <<statVars, runVars, retryVars, saveVars, tableVars, mainVars, viewVars, appendVars>>

notSaveVars == <<statVars, runVars, retryVars, csvVars, tableVars, mainVars, viewVars, appendVars>>

notTableVars == <<statVars, runVars, retryVars, csvVars, saveVars, mainVars, viewVars, appendVars>>

notMainVars == <<statVars, runVars, retryVars, csvVars, saveVars, tableVars, viewVars, appendVars>>

notViewVars == <<statVars, runVars, retryVars, csvVars, saveVars, tableVars, mainVars, appendVars>>

notAppendVars == <<statVars, runVars, retryVars, csvVars, saveVars, tableVars, mainVars, viewVars>>

\* No call of retry is in progress.
RetryIdle ==
  /\ rtVersion = "none"
  /\ maxRetries = 0
  /\ baseDelay = 0
  /\ rtI = 0
  /\ rtPc = "idle"
  /\ rtCalls = <<>>
  /\ rtSleeps = <<>>
  /\ rtResult = [kind |-> "none", val |-> ""]

\* No adapter run is in progress.
RunIdle ==
  /\ adapter = "none"
  /\ parallel = FALSE
  /\ numTxs = 0
  /\ delayMs = 0
  /\ balance = 0
  /\ now = 0
  /\ pc = "idle"
  /\ txIndex = 0
  /\ wake = 0
  /\ txs = <<>>
  /\ results = <<>>
  /\ attempts = <<>>
  /\ summary = <<>>

\* No bucket is being reduced.
StatsIdle ==
  /\ latencies = <<>>
  /\ failures = 0
  /\ stats = <<>>
  /\ viewerStats = <<>>
  /\ done = {"idle"}

\* No CSV conversion is in progress.
CsvIdle ==
  /\ csvNetwork = <<>>
  /\ csvResults = <<>>
  /\ csvContent = <<>>
  /\ csvPc = "idle"

\* No export is in progress.
SaveIdle ==
  /\ networkResults = <<>>
  /\ outputPath = [stem |-> "", ext |-> ""]
  /\ saveClock = 0
  /\ jsonFiles = {}
  /\ csvFiles = {}
  /\ saves = <<>>
  /\ readBack = <<>>
  /\ savePc = "idle"

\* No table is being printed.
TableIdle ==
  /\ tblProgram = "none"
  /\ tblRows = <<>>
  /\ tblOutput = <<>>
  /\ tblPc = "idle"

\* The command line program is not running.
MainIdle ==
  /\ env = {}
  /\ options = [network |-> "none", txs |-> 0, rate |-> 0, parallel |-> FALSE,
                out |-> "", confirm |-> FALSE]
  /\ networksToRun = <<>>
  /\ netIndex = 0
  /\ benchResults = <<>>
  /\ summaryData = <<>>
  /\ events = <<>>
  /\ exitCode = "none"
  /\ mainPc = "idle"

\* No report is being viewed.
ViewIdle ==
  /\ viewer = "none"
  /\ viewReports = <<>>
  /\ viewContent = <<>>
  /\ viewStats = <<>>
  /\ viewOutput = <<>>
  /\ viewPc = "idle"

\* No file is being appended to.
AppendIdle ==
  /\ appFile = [exists |-> FALSE, text |-> <<>>]
  /\ appExisted = FALSE
  /\ appBlocks = <<>>
  /\ appFlags = <<>>

(* ---- bounds of the model ---------------------------------------------- *)

MaxLen == 4

MaxFailures == 2

MaxLatency == 3

(* ---- JavaScript values ------------------------------------------------ *)

\* An entry of the latencies array: a number, null or NaN.
Num(x) == [tag |-> "num", v |-> x]

NULL == [tag |-> "null", v |-> 0]

NaN == [tag |-> "nan", v |-> 0]

\* Latencies the collector may record: -1 stands for the unexpected negative
\* latency, 0 for the zero latency.
LatencyValues == (-1)..MaxLatency

Entries == {Num(x) : x \in LatencyValues} \cup {NULL, NaN}

\* The two concrete runs of the documentation.
ScenarioFive == <<Num(100), Num(200), Num(300), Num(400), Num(500)>>

ScenarioOne == <<Num(1000)>>

RECURSIVE Sum(_)
Sum(arr) == IF arr = <<>> THEN 0 ELSE Head(arr) + Sum(Tail(arr))

RECURSIVE Insert(_, _)
Insert(x, sorted) ==
  IF sorted = <<>> THEN <<x>>
  ELSE IF x - Head(sorted) < 0 THEN <<x>> \o sorted
  ELSE <<Head(sorted)>> \o Insert(x, Tail(sorted))

\* [...arr].sort((a, b) => a - b)
RECURSIVE Sort(_)
Sort(arr) == IF arr = <<>> THEN <<>> ELSE Insert(Head(arr), Sort(Tail(arr)))

\* Math.round of the fraction n/d: floor(n/d + 1/2)
MathRound(n, d) == (2 * n + d) \div (2 * d)

\* Math.floor and Math.ceil of the fraction n/d
MathFloor(n, d) == n \div d

MathCeil(n, d) == -((-n) \div d)

\* Math.round(Math.sqrt(n/d)) for n >= 0 is the largest k >= 0 with
\* (2k - 1)^2 * d <= 4n, that is the least k with (2k + 1)^2 * d > 4n.
SqrtAbove(k, n, d) == (2 * k + 1) * (2 * k + 1) * d > 4 * n

\* a power of two k with SqrtAbove(k, n, d)
RECURSIVE SqrtUpper(_, _, _)
SqrtUpper(k, n, d) == IF SqrtAbove(k, n, d) THEN k ELSE SqrtUpper(2 * k, n, d)

\* the least k in lo..hi with SqrtAbove(k, n, d), given SqrtAbove(hi, n, d)
RECURSIVE SqrtBisect(_, _, _, _)
SqrtBisect(lo, hi, n, d) ==
  IF lo = hi THEN lo
  ELSE LET m == (lo + hi) \div 2
       IN IF SqrtAbove(m, n, d) THEN SqrtBisect(lo, m, n, d)
          ELSE SqrtBisect(m + 1, hi, n, d)

MathRoundSqrt(n, d) == SqrtBisect(0, SqrtUpper(1, n, d), n, d)

\* MathMin as a fold that starts from 0 instead of from the first element
RECURSIVE MathMin_fromZero(_)
MathMin_fromZero(arr) ==
  IF arr = <<>> THEN 0
  ELSE LET m == MathMin_fromZero(Tail(arr)) IN IF Head(arr) < m THEN Head(arr) ELSE m

RECURSIVE MathMin(_)
MathMin(arr) ==
  IF Len(arr) = 1 THEN arr[1]
  ELSE LET m == MathMin(Tail(arr)) IN IF Head(arr) < m THEN Head(arr) ELSE m

RECURSIVE MathMax(_)
MathMax(arr) ==
  IF Len(arr) = 1 THEN arr[1]
  ELSE LET m == MathMax(Tail(arr)) IN IF Head(arr) > m THEN Head(arr) ELSE m

(* ---- utils/stats: the library ----------------------------------------- *)

\* the filter without its isNaN test: latencies.filter(l => l !== null)
RECURSIVE validLatenciesOf_keepsNaN(_)
validLatenciesOf_keepsNaN(ls) ==
  IF ls = <<>> THEN <<>>
  ELSE IF Head(ls).tag # "null"
       THEN <<Head(ls).v>> \o validLatenciesOf_keepsNaN(Tail(ls))
       ELSE validLatenciesOf_keepsNaN(Tail(ls))

\* latencies.filter(l => l !== null && !isNaN(l))
RECURSIVE validLatenciesOf(_)
validLatenciesOf(ls) ==
  IF ls = <<>> THEN <<>>
  ELSE IF Head(ls).tag # "null" /\ Head(ls).tag # "nan"
       THEN <<Head(ls).v>> \o validLatenciesOf(Tail(ls))
       ELSE validLatenciesOf(Tail(ls))

\* average(arr): the unrounded mean as a fraction
average(arr) ==
  IF Len(arr) = 0 THEN [n |-> 0, d |-> 1] ELSE [n |-> Sum(arr), d |-> Len(arr)]

\* median with the division binding to the second operand only:
\* sorted[mid - 1] + sorted[mid] / 2
median_precedence(arr) ==
  IF Len(arr) = 0 THEN [n |-> 0, d |-> 1]
  ELSE LET sorted == Sort(arr)
           mid == Len(sorted) \div 2
       IN IF Len(sorted) % 2 = 0
          THEN [n |-> 2 * sorted[mid] + sorted[mid + 1], d |-> 2]
          ELSE [n |-> sorted[mid + 1], d |-> 1]

\* median(arr): the unrounded median as a fraction
median(arr) ==
  IF Len(arr) = 0 THEN [n |-> 0, d |-> 1]
  ELSE LET sorted == Sort(arr)
           mid == Len(sorted) \div 2
       IN IF Len(sorted) % 2 = 0
          THEN [n |-> sorted[mid] + sorted[mid + 1], d |-> 2]
          ELSE [n |-> sorted[mid + 1], d |-> 1]

\* the sample standard deviation: the squared deviations summed and divided
\* by length - 1 (0 for a single value)
standardDeviation_sample(arr) ==
  IF Len(arr) <= 1 THEN [n |-> 0, d |-> 1]
  ELSE LET avg == [n |-> Sum(arr), d |-> Len(arr)]
           squareDiffs == [i \in 1..Len(arr) |->
                             (avg.d * arr[i] - avg.n) * (avg.d * arr[i] - avg.n)]
       IN [n |-> Sum(squareDiffs), d |-> avg.d * avg.d * (Len(arr) - 1)]

\* standardDeviation(arr): the fraction under Math.sqrt.  With avg = s/c the
\* squared deviation of value is (c*value - s)^2 / c^2 and the average of the
\* c squared deviations is their sum over c^3.
standardDeviation(arr) ==
  IF Len(arr) = 0 THEN [n |-> 0, d |-> 1]
  ELSE LET avg == average(arr)
           squareDiffs == [i \in 1..Len(arr) |->
                             (avg.d * arr[i] - avg.n) * (avg.d * arr[i] - avg.n)]
       IN [n |-> Sum(squareDiffs), d |-> avg.d * avg.d * Len(arr)]

\* percentile reading the array as passed, without sorting a copy
percentile_unsorted(arr, p) ==
  IF Len(arr) = 0 THEN [n |-> 0, d |-> 1]
  ELSE LET indexN == p * (Len(arr) - 1)
           lower == MathFloor(indexN, 100)
           upper == MathCeil(indexN, 100)
           weightN == indexN % 100
       IN IF lower = upper
          THEN [n |-> arr[lower + 1], d |-> 1]
          ELSE [n |-> arr[lower + 1] * (100 - weightN) + arr[upper + 1] * weightN,
                d |-> 100]

\* percentile whose guard also returns 0 for a single value (length <= 1)
percentile_singleAsEmpty(arr, p) ==
  IF Len(arr) <= 1 THEN [n |-> 0, d |-> 1]
  ELSE LET sorted == Sort(arr)
           indexN == p * (Len(sorted) - 1)
           lower == MathFloor(indexN, 100)
           upper == MathCeil(indexN, 100)
           weightN == indexN % 100
       IN IF lower = upper
          THEN [n |-> sorted[lower + 1], d |-> 1]
          ELSE [n |-> sorted[lower + 1] * (100 - weightN) + sorted[upper + 1] * weightN,
                d |-> 100]

\* percentile(arr, p): linear interpolation between the two ranks around
\* index = (p/100) * (length - 1); the result as a fraction over 100.
percentile(arr, p) ==
  IF Len(arr) = 0 THEN [n |-> 0, d |-> 1]
  ELSE LET sorted == Sort(arr)
           indexN == p * (Len(sorted) - 1)
           lower == MathFloor(indexN, 100)
           upper == MathCeil(indexN, 100)
           weightN == indexN % 100
       IN IF lower = upper
          THEN [n |-> sorted[lower + 1], d |-> 1]
          ELSE [n |-> sorted[lower + 1] * (100 - weightN) + sorted[upper + 1] * weightN,
                d |-> 100]

\* Math.round(percentile(validLatencies, p)): the rounded values the double
\* computation may yield.  An interpolated value (d = 100) that is exactly
\* k + 1/2 rounds to k or to k + 1.
roundedPercentile(arr, p) ==
  LET q == percentile(arr, p)
      r == MathRound(q.n, q.d)
  IN IF q.d # 1 /\ (2 * q.n + q.d) % (2 * q.d) = 0 THEN {r - 1, r} ELSE {r}

\* calculateStats deriving txPerSecond from the rounded average field
calculateStats_txFromRounded(ls, f) ==
  LET validLatencies == validLatenciesOf(ls)
  IN IF Len(validLatencies) = 0
     THEN {[count |-> 0, failures |-> f, average |-> 0, txPerSecond |-> 0,
            median |-> 0, stdDev |-> 0, min |-> 0, max |-> 0,
            p90 |-> 0, p95 |-> 0, p99 |-> 0]}
     ELSE LET avg == average(validLatencies)
              rounded == MathRound(avg.n, avg.d)
              med == median(validLatencies)
              sd == standardDeviation(validLatencies)
          IN {[count |-> Len(validLatencies),
               failures |-> f,
               average |-> rounded,
               txPerSecond |-> IF rounded > 0 THEN MathRound(100000, rounded) ELSE 0,
               median |-> MathRound(med.n, med.d),
               stdDev |-> MathRoundSqrt(sd.n, sd.d),
               min |-> MathMin(validLatencies),
               max |-> MathMax(validLatencies),
               p90 |-> q90,
               p95 |-> q95,
               p99 |-> q99] :
                 q90 \in roundedPercentile(validLatencies, 90),
                 q95 \in roundedPercentile(validLatencies, 95),
                 q99 \in roundedPercentile(validLatencies, 99)}

\* calculateStats(latencies, failures): the summaries it may return (one,
\* unless an interpolated percentile lies on a rounding boundary)
calculateStats(ls, f) ==
  LET validLatencies == validLatenciesOf(ls)
  IN IF Len(validLatencies) = 0
     THEN {[count |-> 0, failures |-> f, average |-> 0, txPerSecond |-> 0,
            median |-> 0, stdDev |-> 0, min |-> 0, max |-> 0,
            p90 |-> 0, p95 |-> 0, p99 |-> 0]}
     ELSE LET avg == average(validLatencies)
              med == median(validLatencies)
              sd == standardDeviation(validLatencies)
          IN {[count |-> Len(validLatencies),
               failures |-> f,
               average |-> MathRound(avg.n, avg.d),
               \* avg > 0 ? 1000 / avg : 0, then Math.round(x * 100) / 100
               txPerSecond |-> IF avg.n > 0 THEN MathRound(100000 * avg.d, avg.n) ELSE 0,
               median |-> MathRound(med.n, med.d),
               stdDev |-> MathRoundSqrt(sd.n, sd.d),
               min |-> MathMin(validLatencies),
               max |-> MathMax(validLatencies),
               p90 |-> q90,
               p95 |-> q95,
               p99 |-> q99] :
                 q90 \in roundedPercentile(validLatencies, 90),
                 q95 \in roundedPercentile(validLatencies, 95),
                 q99 \in roundedPercentile(validLatencies, 99)}

(* ---- the stand-alone viewer's own statistics -------------------------- *)

\* The viewer's percentile closure: sorted[Math.ceil((p / 100) * n) - 1]
viewerPercentile(sorted, p) == sorted[(MathCeil(p * Len(sorted), 100) - 1) + 1]

\* The viewer's calculateStats(latencies): <<>> is its null result, <<r>> a
\* summary r (which has no failures field: readCSV adds it).
viewerCalculateStats(arr) ==
  IF Len(arr) = 0 THEN <<>>
  ELSE LET sorted == Sort(arr)
           sum == Sum(sorted)
           c == Len(sorted)
           mid == c \div 2
           med == IF c % 2 = 0
                  THEN [n |-> sorted[mid] + sorted[mid + 1], d |-> 2]
                  ELSE [n |-> sorted[mid + 1], d |-> 1]
           varianceN == Sum([i \in 1..c |-> (c * sorted[i] - sum) * (c * sorted[i] - sum)])
       IN << [count |-> c,
              average |-> MathRound(sum, c),
              txPerSecond |-> IF sum > 0 THEN MathRound(100000 * c, sum) ELSE 0,
              median |-> MathRound(med.n, med.d),
              stdDev |-> MathRoundSqrt(varianceN, c * c * c),
              min |-> sorted[1],
              max |-> sorted[c],
              p90 |-> viewerPercentile(sorted, 90),
              p95 |-> viewerPercentile(sorted, 95),
              p99 |-> viewerPercentile(sorted, 99)] >>

(* ---- the state machine ------------------------------------------------ *)

\* The bucket of one network before any report: empty, or holding one of the
\* documented runs.
Init ==
  /\ latencies \in {<<>>, ScenarioFive, ScenarioOne}
  /\ failures = 0
  /\ stats = <<>>
  /\ viewerStats = <<>>
  /\ done = {}
  /\ RunIdle
  /\ RetryIdle
  /\ CsvIdle
  /\ SaveIdle
  /\ TableIdle
  /\ MainIdle
  /\ ViewIdle
  /\ AppendIdle

\* A successful record: its latency is appended to the bucket.
RecordSuccess(e) ==
  /\ done = {}
  /\ Len(latencies) < MaxLen
  /\ latencies' = Append(latencies, e)
  /\ UNCHANGED <<failures, stats, viewerStats, done, notStatVars>>

\* A failed record: the failure counter is incremented.
RecordFailure ==
  /\ done = {}
  /\ failures < MaxFailures
  /\ failures' = failures + 1
  /\ UNCHANGED <<latencies, stats, viewerStats, done, notStatVars>>

\* The benchmark reduces the bucket with the library's calculateStats.
CalculateStats ==
  /\ "lib" \notin done
  /\ \E r \in calculateStats(latencies, failures) : stats' = <<r>>
  /\ done' = done \cup {"lib"}
  /\ UNCHANGED <<latencies, failures, viewerStats, notStatVars>>

\* The stand-alone viewer reduces the same latencies with its own
\* calculateStats.  Its readCSV hands it the parseInt of each success row's
\* latency column, so it runs on buckets of numbers.
ViewerCalculateStats ==
  /\ "viewer" \notin done
  /\ \A i \in 1..Len(latencies) : latencies[i].tag = "num"
  /\ viewerStats' = viewerCalculateStats(validLatenciesOf(latencies))
  /\ done' = done \cup {"viewer"}
  /\ UNCHANGED <<latencies, failures, stats, notStatVars>>

Next ==
  \/ \E e \in Entries : RecordSuccess(e)
  \/ RecordFailure
  \/ CalculateStats
  \/ ViewerCalculateStats

Spec == Init /\ [][Next]_vars

(* ---- what the claims speak about -------------------------------------- *)

LibDone == "lib" \in done

ViewerDone == "viewer" \in done

\* the summary the library returned
Lib == stats[1]

\* the numbers of the bucket, in arrival order and in ascending order
Samples == SelectSeq(latencies, LAMBDA e : e.tag = "num")

SampleCount == Len(Samples)

SampleSum == Sum([i \in 1..SampleCount |-> Samples[i].v])

SampleSquares == Sum([i \in 1..SampleCount |-> Samples[i].v * Samples[i].v])

Ascending == Sort([i \in 1..SampleCount |-> Samples[i].v])

\* the nearest-rank-ceiling percentile: sorted[ceil((p/100) * n) - 1], the
\* index clamped to [0, n-1]
CeilingRank(p) ==
  LET raw == MathCeil(p * SampleCount, 100) - 1
      index == IF raw < 0 THEN 0 ELSE IF raw > SampleCount - 1 THEN SampleCount - 1 ELSE raw
  IN Ascending[index + 1]

StatsFields ==
  {"count", "failures", "average", "txPerSecond", "median", "stdDev",
   "min", "max", "p90", "p95", "p99"}

(* ---- C1 --------------------------------------------------------------- *)

\* C1: for a non-empty bucket the library's calculateStats reports, for each
\* of p90, p95 and p99, the nearest-rank-ceiling sample
\* sorted[ceil((p/100) * n) - 1], with no interpolation.
C1_CeilingRankPercentiles ==
  (LibDone /\ SampleCount > 0) =>
    /\ Lib.p90 = CeilingRank(90)
    /\ Lib.p95 = CeilingRank(95)
    /\ Lib.p99 = CeilingRank(99)

(* ---- C2 --------------------------------------------------------------- *)

\* C2: calculateStats([100, 200, 300, 400, 500], 0) returns count 5,
\* failures 0, average 300, median 300, stdDev 141, min 100, max 500,
\* p90 = p95 = p99 = 500 and txPerSecond 3.33.
C2_ScenarioFive ==
  (LibDone /\ latencies = ScenarioFive /\ failures = 0) =>
    Lib = [count |-> 5, failures |-> 0, average |-> 300, txPerSecond |-> 333,
           median |-> 300, stdDev |-> 141, min |-> 100, max |-> 500,
           p90 |-> 500, p95 |-> 500, p99 |-> 500]

(* ---- C3 --------------------------------------------------------------- *)

\* C3: when the bucket is empty or holds only null / NaN entries,
\* calculateStats returns count 0, failures as passed and 0 in every other
\* field, for every failures value.
C3_EmptyIsAllZero ==
  (LibDone /\ \A i \in 1..Len(latencies) : latencies[i].tag # "num") =>
    /\ DOMAIN Lib = StatsFields
    /\ Lib.failures = failures
    /\ \A fld \in StatsFields \ {"failures"} : Lib[fld] = 0

C3_Witness ==
  /\ LibDone
  /\ Len(latencies) > 1
  /\ \A i \in 1..Len(latencies) : latencies[i].tag # "num"
  /\ \E i \in 1..Len(latencies) : latencies[i] = NaN
  /\ failures = MaxFailures

(* ---- C4 --------------------------------------------------------------- *)

\* C4: for a single sample [x] and any failures f, calculateStats returns
\* count 1, failures f, average = median = min = max = p90 = p95 = p99 = x
\* and stdDev 0; [1000] with 2 failures has txPerSecond 1.0.
C4_SingleSample ==
  (LibDone /\ Len(latencies) = 1 /\ latencies[1].tag = "num") =>
    LET x == latencies[1].v
    IN /\ Lib.count = 1
       /\ Lib.failures = failures
       /\ \A fld \in {"average", "median", "min", "max", "p90", "p95", "p99"} :
            Lib[fld] = x
       /\ Lib.stdDev = 0
       /\ (x = 1000 /\ failures = 2) => Lib.txPerSecond = 100

C4_Witness ==
  /\ LibDone
  /\ latencies = ScenarioOne
  /\ failures = 2
  /\ Lib.txPerSecond = 100
  /\ Lib.p99 = 1000

(* ---- C5 --------------------------------------------------------------- *)

\* C5: every summary of calculateStats has p90 <= p95 <= p99, and for a
\* non-empty bucket min <= p90 and p99 <= max, after rounding.
C5_PercentilesMonotone ==
  LibDone =>
    /\ Lib.p90 <= Lib.p95
    /\ Lib.p95 <= Lib.p99
    /\ Lib.min <= Lib.p90
    /\ Lib.p99 <= Lib.max

C5_Witness ==
  /\ LibDone
  /\ SampleCount > 2
  /\ Samples[1].v > Samples[2].v
  /\ Lib.min < Lib.p90
  /\ Lib.p90 < Lib.p95
  /\ Lib.p99 <= Lib.max

(* ---- C6 --------------------------------------------------------------- *)

\* C6: for a non-empty bucket the rounded average and the rounded median of
\* the summary lie in the closed interval [min, max].
C6_AverageMedianWithinRange ==
  (LibDone /\ SampleCount > 0) =>
    /\ Lib.min <= Lib.average
    /\ Lib.average <= Lib.max
    /\ Lib.min <= Lib.median
    /\ Lib.median <= Lib.max

\* an even number of samples whose mean and median are both rounded up
C6_Witness ==
  /\ LibDone
  /\ SampleCount > 0
  /\ SampleCount % 2 = 0
  /\ SampleSum % SampleCount # 0
  /\ (Ascending[SampleCount \div 2] + Ascending[SampleCount \div 2 + 1]) % 2 = 1
  /\ Lib.median = Lib.max

(* ---- C7 --------------------------------------------------------------- *)

\* C7: stdDev is the rounded population standard deviation.  With n samples
\* of sum s and sum of squares q the population variance about the
\* unrounded mean is (n*q - s^2) / n^2, so stdDev is the k >= 0 with
\* k - 1/2 <= sqrt(variance) < k + 1/2; it is 0 for n = 1.
C7_PopulationStdDev ==
  (LibDone /\ SampleCount > 0) =>
    LET n == SampleCount
        v == n * SampleSquares - SampleSum * SampleSum
        k == Lib.stdDev
    IN /\ k >= 0
       /\ k > 0 => (2 * k - 1) * (2 * k - 1) * n * n <= 4 * v
       /\ 4 * v < (2 * k + 1) * (2 * k + 1) * n * n
       /\ n = 1 => k = 0

\* samples for which dividing by n - 1 would round differently
C7_Witness ==
  /\ LibDone
  /\ SampleCount = 2
  /\ Ascending[2] - Ascending[1] = 4
  /\ Lib.stdDev = 2

(* ---- C8 --------------------------------------------------------------- *)

\* C8: txPerSecond is 1000 divided by the unrounded mean s/n, rounded to two
\* decimals (in hundredths: the k with k - 1/2 <= 100000*n/s < k + 1/2), and
\* is 0 when the mean is 0 (or not positive) and when the bucket is empty.
C8_TxPerSecondFromUnroundedMean ==
  LibDone =>
    LET n == SampleCount
        s == SampleSum
        k == Lib.txPerSecond
    IN IF n > 0 /\ s > 0
       THEN /\ (2 * k - 1) * s <= 200000 * n
            /\ 200000 * n < (2 * k + 1) * s
       ELSE k = 0

\* a mean of 1.5: 666.67 tx/s, where the rounded average 2 would give 500
C8_Witness ==
  /\ LibDone
  /\ SampleCount = 2
  /\ SampleSum = 3
  /\ Lib.average = 2
  /\ Lib.txPerSecond = 66667

(* ---- C9 --------------------------------------------------------------- *)

\* C9: calculateStats is total.  For every bucket (empty, all failures,
\* negative values, zeros, duplicates) and every failures count it returns a
\* summary whose eleven fields are all integers; count is the number of
\* numeric entries and min is the smallest of them as integers, so the most
\* negative one.
C9_Total ==
  /\ ~LibDone => calculateStats(latencies, failures) # {}
  /\ LibDone =>
       /\ DOMAIN Lib = StatsFields
       /\ \A fld \in StatsFields : Lib[fld] \in Int
       /\ Lib.count = SampleCount
       /\ Lib.failures = failures
       /\ SampleCount > 0 =>
            /\ \E i \in 1..SampleCount : Samples[i].v = Lib.min
            /\ \A i \in 1..SampleCount : Lib.min <= Samples[i].v
            /\ \E i \in 1..SampleCount : Samples[i].v = Lib.max
            /\ \A i \in 1..SampleCount : Samples[i].v <= Lib.max

\* a bucket with a duplicate, a positive and a negative latency and an
\* invalid entry
C9_Witness ==
  /\ LibDone
  /\ \E i, j \in 1..SampleCount : i # j /\ Samples[i].v = Samples[j].v /\ Samples[i].v > 0
  /\ \E i \in 1..Len(latencies) : latencies[i].tag # "num"
  /\ Lib.min < 0
  /\ Lib.count = 3

(* ---- C10 -------------------------------------------------------------- *)

\* C10: for every non-empty bucket of integers the viewer's own
\* calculateStats and the library's calculateStats return the same p90, p95
\* and p99 and the same average, median, stdDev, min, max and txPerSecond.
C10_OnePercentileMethod ==
  (LibDone /\ ViewerDone /\ SampleCount > 0) =>
    /\ Len(viewerStats) = 1
    /\ \A fld \in StatsFields \ {"failures"} : viewerStats[1][fld] = Lib[fld]

(***************************************************************************)
(* One adapter run: runBenchmark of a chain adapter (lib/evm, lib/solana,  *)
(* lib/aptos, lib/near, lib/sui) called by runNetworkBenchmark, which then *)
(* reduces the returned records to a summary.  Date.now() is the clock     *)
(* `now`; it advances between any two steps of the run.                    *)
(***************************************************************************)

(* ---- bounds of the run ------------------------------------------------ *)

MaxTxs == 2

MaxTime == 3

MaxBalance == 2

(* ---- the adapters ----------------------------------------------------- *)

Adapters == {"evm", "solana", "aptos", "near", "sui"}

\* The adapters whose runBenchmark has a parallel branch; the others send
\* sequentially whatever the flag says.
ParallelAdapters == {"evm", "solana", "aptos"}

\* delayMs = rate > 0 ? 1000 / rate : 0, for the rates 0 and 1000
Delays == {0, 1}

\* The transaction hash of the k-th transaction; null is 0.
TxHash(k) == k

NoTxId == 0

\* The records the adapters build.
SuccessRecord(id, sendTime, finalTime) ==
  [txId |-> id, sendTime |-> sendTime, finalTime |-> finalTime,
   latency |-> Num(finalTime - sendTime), status |-> "success", error |-> ""]

FailedRecord(id, sendTime, finalTime) ==
  [txId |-> id, sendTime |-> sendTime, finalTime |-> finalTime,
   latency |-> Num(finalTime - sendTime), status |-> "failed",
   error |-> "error"]

\* The record of a transaction whose submission failed (solana, aptos).
UnsentRecord(sendTime, finalTime) ==
  [txId |-> NoTxId, sendTime |-> sendTime, finalTime |-> finalTime,
   latency |-> NULL, status |-> "failed", error |-> "error"]

NoRecord ==
  [txId |-> NoTxId, sendTime |-> 0, finalTime |-> 0, latency |-> NULL,
   status |-> "none", error |-> ""]

\* A transaction the loop has not reached yet.  submittedAt and completedAt
\* are the instants at which its loop iteration ran and at which its own
\* finality wait settled.
FreshTx ==
  [state |-> "new", sendTime |-> 0, rec |-> NoRecord, submittedAt |-> 0,
   completedAt |-> 0]

\* The sendTime the finality callback of the k-th transaction sees: the
\* constant its own loop iteration captured.
sendTimeOf_shared(sentTxs, k) == sentTxs[Len(sentTxs)].sendTime

sendTimeOf(sentTxs, k) == sentTxs[k].sendTime

\* The rate limiting at the end of the loop body of iteration i:
\* if (i < numTxs - 1 && delayMs > 0) await sleep(delayMs).
rateLimited_everyTx(i, n, d) == d > 0

rateLimited(i, n, d) == i < n - 1 /\ d > 0

\* runNetworkBenchmark: the latencies of the success records, in order.
benchLatencies_unfiltered(rs) == [k \in 1..Len(rs) |-> rs[k].latency]

benchLatencies(rs) ==
  LET ok == SelectSeq(rs, LAMBDA r : r.status = "success")
  IN [k \in 1..Len(ok) |-> ok[k].latency]

\* runNetworkBenchmark: the number of failed records.
benchFailures(rs) == Len(SelectSeq(rs, LAMBDA r : r.status = "failed"))

\* The estimated total cost of n transactions, amount and fees; the balance
\* is counted in the same unit, the estimated cost of one transaction.
totalCost(n) == n

\* The adapters whose balance check sits inside a try block whose catch only
\* warns 'Could not fetch balance'.
BalanceCheckCaught == {"aptos", "sui"}

(* ---- the run as a state machine --------------------------------------- *)

IsParallel == parallel /\ adapter \in ParallelAdapters

InitRun ==
  /\ adapter \in Adapters
  /\ parallel \in BOOLEAN
  /\ numTxs \in 0..MaxTxs
  /\ delayMs \in Delays
  /\ balance \in 0..MaxBalance
  /\ now = 0
  /\ pc = "start"
  /\ txIndex = 0
  /\ wake = 0
  /\ txs = [k \in 1..numTxs |-> FreshTx]
  /\ results = <<>>
  /\ attempts = [k \in 1..numTxs |-> 0]
  /\ summary = <<>>
  /\ StatsIdle
  /\ RetryIdle
  /\ CsvIdle
  /\ SaveIdle
  /\ TableIdle
  /\ MainIdle
  /\ ViewIdle
  /\ AppendIdle

\* Time passes while the run is in progress.
Tick ==
  /\ pc \in {"loop", "attempt", "sleep", "awaitSent", "awaitFinal"}
  /\ now < MaxTime
  /\ now' = now + 1
  /\ UNCHANGED <<adapter, parallel, numTxs, delayMs, balance, pc, txIndex,
                 wake, txs, results, attempts, summary, notRunVars>>

\* The start of runBenchmark: the balance is read and compared with the
\* estimated total cost.  `throw new Error('Insufficient balance...')`
\* rejects runBenchmark in lib/evm, lib/solana and lib/near; in lib/aptos and
\* lib/sui the throw is caught by the catch block around the check, which
\* prints a warning, and the run goes on.
CheckBalance ==
  /\ pc = "start"
  /\ pc' = IF balance < totalCost(numTxs) /\ adapter \notin BalanceCheckCaught
             THEN "rejected"
             ELSE "loop"
  /\ UNCHANGED <<adapter, parallel, numTxs, delayMs, balance, now, txIndex,
                 wake, txs, results, attempts, summary, notRunVars>>

\* Sequential loop body, first half: retry(() => sendTransaction(...), 3,
\* 2000) invokes sendTransaction, which reads Date.now() into sendTime.
SeqSend ==
  /\ ~IsParallel
  /\ pc = "loop"
  /\ txIndex < numTxs
  /\ txs' = [txs EXCEPT ![txIndex + 1] =
               [@ EXCEPT !.state = "pending", !.sendTime = now,
                         !.submittedAt = now]]
  /\ attempts' = [attempts EXCEPT ![txIndex + 1] = @ + 1]
  /\ pc' = "attempt"
  /\ UNCHANGED <<adapter, parallel, numTxs, delayMs, balance, now, txIndex,
                 wake, results, summary, notRunVars>>

\* Sequential loop body, second half: sendTransaction resolves, with a
\* success record or, from its own catch block, with a failed record; retry
\* returns what the first invocation resolved with, the record is pushed,
\* and the loop sleeps when rate limited and not at the last transaction.
SeqResolve(ok) ==
  /\ pc = "attempt"
  /\ LET k == txIndex + 1
         rec == IF ok THEN SuccessRecord(TxHash(k), txs[k].sendTime, now)
                      ELSE FailedRecord(NoTxId, txs[k].sendTime, now)
     IN /\ txs' = [txs EXCEPT ![k] =
                     [@ EXCEPT !.state = "done", !.rec = rec,
                               !.completedAt = now]]
        /\ results' = Append(results, rec)
  /\ IF rateLimited(txIndex, numTxs, delayMs)
       THEN /\ pc' = "sleep"
            /\ wake' = now + delayMs
            /\ UNCHANGED txIndex
       ELSE /\ pc' = "loop"
            /\ txIndex' = txIndex + 1
            /\ UNCHANGED wake
  /\ UNCHANGED <<adapter, parallel, numTxs, delayMs, balance, now, attempts,
                 summary, notRunVars>>

\* sleep(delayMs) is over: the loop goes to its next iteration.
SleepDone ==
  /\ pc = "sleep"
  /\ now >= wake
  /\ pc' = "loop"
  /\ txIndex' = txIndex + 1
  /\ UNCHANGED <<adapter, parallel, numTxs, delayMs, balance, now, wake, txs,
                 results, attempts, summary, notRunVars>>

\* The sequential loop is over: runBenchmark returns results.
SeqReturn ==
  /\ ~IsParallel
  /\ pc = "loop"
  /\ txIndex = numTxs
  /\ pc' = "returned"
  /\ UNCHANGED <<adapter, parallel, numTxs, delayMs, balance, now, txIndex,
                 wake, txs, results, attempts, summary, notRunVars>>

\* Parallel loop body: sendTime is read, the submission is started without
\* being awaited, and the loop sleeps when rate limited and not at the last
\* transaction.
ParSend ==
  /\ IsParallel
  /\ pc = "loop"
  /\ txIndex < numTxs
  /\ txs' = [txs EXCEPT ![txIndex + 1] =
               [@ EXCEPT !.state = "pending", !.sendTime = now,
                         !.submittedAt = now]]
  /\ attempts' = [attempts EXCEPT ![txIndex + 1] = @ + 1]
  /\ IF rateLimited(txIndex, numTxs, delayMs)
       THEN /\ pc' = "sleep"
            /\ wake' = now + delayMs
            /\ UNCHANGED txIndex
       ELSE /\ pc' = "loop"
            /\ txIndex' = txIndex + 1
            /\ UNCHANGED wake
  /\ UNCHANGED <<adapter, parallel, numTxs, delayMs, balance, now, results,
                 summary, notRunVars>>

\* The parallel loop is over: Promise.all(txPromises) is awaited.
ParLoopEnd ==
  /\ IsParallel
  /\ pc = "loop"
  /\ txIndex = numTxs
  /\ pc' = "awaitSent"
  /\ UNCHANGED <<adapter, parallel, numTxs, delayMs, balance, now, txIndex,
                 wake, txs, results, attempts, summary, notRunVars>>

\* The submission of the k-th transaction settles while the function is
\* suspended.  A failed submission rejects the promise of lib/evm and
\* resolves to a 'failed' entry in lib/solana and lib/aptos.
SubmitSettle(k, ok) ==
  /\ pc \in {"sleep", "awaitSent"}
  /\ txs[k].state = "pending"
  /\ txs' = [txs EXCEPT ![k].state =
               IF ok THEN "sent"
               ELSE IF adapter = "evm" THEN "rejected" ELSE "unsent"]
  /\ UNCHANGED <<adapter, parallel, numTxs, delayMs, balance, now, pc,
                 txIndex, wake, results, attempts, summary, notRunVars>>

\* Promise.all(txPromises) rejects with the first rejected submission, and
\* so do sendTransactionsParallel, runBenchmark and runNetworkBenchmark.
AwaitSentReject ==
  /\ pc = "awaitSent"
  /\ \E k \in 1..numTxs : txs[k].state = "rejected"
  /\ pc' = "rejected"
  /\ UNCHANGED <<adapter, parallel, numTxs, delayMs, balance, now, txIndex,
                 wake, txs, results, attempts, summary, notRunVars>>

\* Promise.all(txPromises) resolves: sentTxs.map starts every finality
\* callback; the callback of an unsent transaction returns its record at
\* once.
AwaitSentDone ==
  /\ pc = "awaitSent"
  /\ \A k \in 1..numTxs : txs[k].state \in {"sent", "unsent"}
  /\ txs' = [k \in 1..numTxs |->
               IF txs[k].state = "unsent"
                 THEN [txs[k] EXCEPT !.state = "done",
                         !.rec = UnsentRecord(sendTimeOf(txs, k), now),
                         !.completedAt = now]
                 ELSE txs[k]]
  /\ pc' = "awaitFinal"
  /\ UNCHANGED <<adapter, parallel, numTxs, delayMs, balance, now, txIndex,
                 wake, results, attempts, summary, notRunVars>>

\* The finality wait of the k-th transaction settles: its callback reads
\* Date.now() into finalTime and returns a success or a failed record.
FinalSettle(k, ok) ==
  /\ pc = "awaitFinal"
  /\ txs[k].state = "sent"
  /\ txs' = [txs EXCEPT ![k] =
               [@ EXCEPT !.state = "done",
                  !.rec = IF ok
                    THEN SuccessRecord(TxHash(k), sendTimeOf(txs, k), now)
                    ELSE FailedRecord(TxHash(k), sendTimeOf(txs, k), now),
                  !.completedAt = now]]
  /\ UNCHANGED <<adapter, parallel, numTxs, delayMs, balance, now, pc,
                 txIndex, wake, results, attempts, summary, notRunVars>>

\* Promise.all over the finality callbacks resolves to their records in the
\* order of sentTxs.
ParReturn ==
  /\ pc = "awaitFinal"
  /\ \A k \in 1..numTxs : txs[k].state = "done"
  /\ results' = [k \in 1..numTxs |-> txs[k].rec]
  /\ pc' = "returned"
  /\ UNCHANGED <<adapter, parallel, numTxs, delayMs, balance, now, txIndex,
                 wake, txs, attempts, summary, notRunVars>>

\* runNetworkBenchmark reduces the returned records with calculateStats.
Summarise ==
  /\ pc = "returned"
  /\ \E r \in calculateStats(benchLatencies(results), benchFailures(results)) :
       summary' = <<r>>
  /\ pc' = "summarised"
  /\ UNCHANGED <<adapter, parallel, numTxs, delayMs, balance, now, txIndex,
                 wake, txs, results, attempts, notRunVars>>

NextRun ==
  \/ CheckBalance
  \/ Tick
  \/ SeqSend
  \/ \E ok \in BOOLEAN : SeqResolve(ok)
  \/ SleepDone
  \/ SeqReturn
  \/ ParSend
  \/ ParLoopEnd
  \/ \E k \in 1..numTxs, ok \in BOOLEAN : SubmitSettle(k, ok)
  \/ AwaitSentReject
  \/ AwaitSentDone
  \/ \E k \in 1..numTxs, ok \in BOOLEAN : FinalSettle(k, ok)
  \/ ParReturn
  \/ Summarise

SpecRun == InitRun /\ [][NextRun]_vars

(* ---- what the claims about a run speak about -------------------------- *)

Returned == pc \in {"returned", "summarised"}

Summarised == pc = "summarised"

\* C11: once runNetworkBenchmark has produced its summary, stats.count +
\* stats.failures is the number of records the adapter returned.
C11_EveryRecordCountedOnce ==
  Summarised => summary[1].count + summary[1].failures = Len(results)

\* a summary over successes and failures alike, among them a failed record
\* that carries a latency
C11_Witness ==
  /\ Summarised
  /\ summary[1].count > 0
  /\ summary[1].failures > 0
  /\ \E k \in 1..Len(results) :
       results[k].status = "failed" /\ results[k].latency # NULL

ParallelReturned == IsParallel /\ Returned

\* C18, as stated: in parallel mode the record at position k belongs to the
\* k-th submitted transaction and its latency is that transaction's own
\* completion time minus its own sendTime.
C18_OwnTimestamps ==
  ParallelReturned =>
    /\ Len(results) = numTxs
    /\ \A k \in 1..numTxs :
         /\ results[k].sendTime = txs[k].submittedAt
         /\ results[k].latency = Num(txs[k].completedAt - txs[k].submittedAt)

\* C18, amended: in parallel mode the record at position k belongs to the
\* k-th submitted transaction: it carries that transaction's sendTime and
\* hash, and its latency is either null, for a transaction whose submission
\* failed, or that transaction's own completion time minus its own sendTime.
C18_OwnTimestampsWhenMeasured ==
  ParallelReturned =>
    /\ Len(results) = numTxs
    /\ \A k \in 1..numTxs :
         /\ results[k].sendTime = txs[k].submittedAt
         /\ results[k].finalTime = txs[k].completedAt
         /\ results[k].txId \in {NoTxId, TxHash(k)}
         /\ IF results[k].txId = NoTxId
              THEN results[k].latency = NULL /\ results[k].status = "failed"
              ELSE results[k].latency =
                     Num(txs[k].completedAt - txs[k].submittedAt)

\* two transactions sent at different instants whose finality settled in
\* the opposite order
C18_Witness ==
  /\ ParallelReturned
  /\ numTxs >= 2
  /\ txs[1].submittedAt < txs[2].submittedAt
  /\ txs[2].completedAt < txs[1].completedAt
  /\ results[1].latency # NULL
  /\ results[2].latency # NULL

\* the bound the sequential loops pass to retry
RetryAttempts == 3

SequentialReturned == ~IsParallel /\ Returned

\* C19: in sequential mode a transaction is recorded as failed only after
\* sendTransaction has been attempted the full three times, exactly one
\* failed record is appended for it, and the run continues with the next
\* transaction.
C19_FailedOnlyAfterAllAttempts ==
  SequentialReturned =>
    /\ Len(results) = numTxs
    /\ \A k \in 1..numTxs :
         results[k].status = "failed" => attempts[k] = RetryAttempts

(***************************************************************************)
(* retry(fn, maxRetries, baseDelay) of utils/common, in its JavaScript and *)
(* its TypeScript version.  fn is any async closure: each invocation       *)
(* resolves with a value or rejects with an error, which may be an Error   *)
(* object or null.                                                         *)
(***************************************************************************)

(* ---- bounds of a retry call ------------------------------------------- *)

\* the largest maxRetries argument
MaxRetriesArg == 3

\* the largest baseDelay argument
MaxBaseDelay == 2

(* ---- values ----------------------------------------------------------- *)

RetryVersions == {"js", "ts"}

\* what an invocation of fn may resolve with
FnValues == {"valueA", "valueB"}

\* what an invocation of fn may reject with: an Error object or null
FnErrors == {"errorA", "errorB", "null"}

\* Math.pow(2, n)
RECURSIVE Pow2(_)
Pow2(n) == IF n <= 0 THEN 1 ELSE 2 * Pow2(n - 1)

\* The delay before the next invocation after the failure of invocation
\* number n (counted from 0).
retryDelay(base, n) == base * Pow2(n)

\* Reading error.message to build the warning: the JavaScript version
\* dereferences the error, which throws a TypeError on null; the TypeScript
\* version tests `error instanceof Error` first.
MessageThrows(version, error) == version = "js" /\ error = "null"

(* ---- retry as a state machine ----------------------------------------- *)

InitRetry ==
  /\ rtVersion \in RetryVersions
  /\ maxRetries \in (-1)..MaxRetriesArg
  /\ baseDelay \in 0..MaxBaseDelay
  /\ rtI = 0
  /\ rtPc = "loop"
  /\ rtCalls = <<>>
  /\ rtSleeps = <<>>
  /\ rtResult = [kind |-> "pending", val |-> ""]
  /\ StatsIdle
  /\ RunIdle
  /\ CsvIdle
  /\ SaveIdle
  /\ TableIdle
  /\ MainIdle
  /\ ViewIdle
  /\ AppendIdle

\* The loop condition holds: fn is invoked and awaited.
RetryInvoke ==
  /\ rtPc = "loop"
  /\ rtI < maxRetries
  /\ rtPc' = "awaiting"
  /\ UNCHANGED <<rtVersion, maxRetries, baseDelay, rtI, rtCalls, rtSleeps,
                 rtResult, notRetryVars>>

\* The loop condition fails: the JavaScript version falls off the end of
\* the function and resolves with undefined, the TypeScript version throws
\* Error('Retry failed').
RetryLoopExit ==
  /\ rtPc = "loop"
  /\ rtI >= maxRetries
  /\ rtResult' = IF rtVersion = "js"
                   THEN [kind |-> "resolved", val |-> "undefined"]
                   ELSE [kind |-> "rejected", val |-> "Retry failed"]
  /\ rtPc' = "settled"
  /\ UNCHANGED <<rtVersion, maxRetries, baseDelay, rtI, rtCalls, rtSleeps,
                 notRetryVars>>

\* The invocation resolves: retry returns its value.
FnResolve(v) ==
  /\ rtPc = "awaiting"
  /\ rtCalls' = Append(rtCalls, [ok |-> TRUE, val |-> v])
  /\ rtResult' = [kind |-> "resolved", val |-> v]
  /\ rtPc' = "settled"
  /\ UNCHANGED <<rtVersion, maxRetries, baseDelay, rtI, rtSleeps,
                 notRetryVars>>

\* The invocation rejects: the catch block rethrows on the last iteration,
\* and otherwise computes the delay, logs the error's message and sleeps.
FnReject(e) ==
  /\ rtPc = "awaiting"
  /\ rtCalls' = Append(rtCalls, [ok |-> FALSE, val |-> e])
  /\ IF rtI = maxRetries - 1
       THEN /\ rtResult' = [kind |-> "rejected", val |-> e]
            /\ rtPc' = "settled"
            /\ UNCHANGED rtSleeps
       ELSE IF MessageThrows(rtVersion, e)
         THEN /\ rtResult' = [kind |-> "rejected", val |-> "TypeError"]
              /\ rtPc' = "settled"
              /\ UNCHANGED rtSleeps
         ELSE /\ rtSleeps' = Append(rtSleeps, retryDelay(baseDelay, rtI))
              /\ rtPc' = "sleeping"
              /\ UNCHANGED rtResult
  /\ UNCHANGED <<rtVersion, maxRetries, baseDelay, rtI, notRetryVars>>

\* sleep(delay) is over: the loop goes to its next iteration.
RetrySleepOver ==
  /\ rtPc = "sleeping"
  /\ rtI' = rtI + 1
  /\ rtPc' = "loop"
  /\ UNCHANGED <<rtVersion, maxRetries, baseDelay, rtCalls, rtSleeps,
                 rtResult, notRetryVars>>

NextRetry ==
  \/ RetryInvoke
  \/ RetryLoopExit
  \/ \E v \in FnValues : FnResolve(v)
  \/ \E e \in FnErrors : FnReject(e)
  \/ RetrySleepOver

SpecRetry == InitRetry /\ [][NextRetry]_vars

(* ---- what the claims about retry speak about -------------------------- *)

RetrySettled == rtPc = "settled"

\* C20: for maxRetries >= 1, fn is invoked at most maxRetries times; the
\* first invocation that resolves ends the call with its value; a rejection
\* of retry carries exactly the error of the last invocation; the sleep
\* after the i-th failed invocation that is not the last is baseDelay * 2^i,
\* and there is no sleep after the final failure.
C20_RetryContract ==
  maxRetries >= 1 =>
    /\ Len(rtCalls) <= maxRetries
    /\ \A j \in 1..(Len(rtCalls) - 1) : ~rtCalls[j].ok
    /\ \A j \in 1..Len(rtSleeps) : rtSleeps[j] = baseDelay * Pow2(j - 1)
    /\ Len(rtSleeps) <= maxRetries - 1
    /\ RetrySettled =>
         /\ Len(rtCalls) >= 1
         /\ rtCalls[Len(rtCalls)].ok =>
              /\ rtResult = [kind |-> "resolved", val |-> rtCalls[Len(rtCalls)].val]
              /\ Len(rtSleeps) = Len(rtCalls) - 1
         /\ ~rtCalls[Len(rtCalls)].ok =>
              /\ rtResult = [kind |-> "rejected", val |-> rtCalls[Len(rtCalls)].val]
              /\ Len(rtCalls) = maxRetries
              /\ Len(rtSleeps) = maxRetries - 1

(***************************************************************************)
(* CSV export: resultsToCSV of utils/output.  A string is a sequence of    *)
(* tokens: the three characters the quoting rule looks for, and atoms,     *)
(* each standing for a run of other characters.                            *)
(***************************************************************************)

(* ---- bounds of the CSV export ----------------------------------------- *)

\* the longest error message, in tokens
MaxErrorLen == 2

(* ---- strings ---------------------------------------------------------- *)

COMMA == ","

QUOTE == "\""

NEWLINE == "\n"

SpecialChars == {COMMA, QUOTE, NEWLINE}

\* the empty string
EmptyString == <<>>

\* Array.prototype.join
RECURSIVE JoinWith(_, _)
JoinWith(parts, sep) ==
  IF Len(parts) = 0 THEN EmptyString
  ELSE IF Len(parts) = 1 THEN parts[1]
  ELSE parts[1] \o <<sep>> \o JoinWith(Tail(parts), sep)

\* str.replace(/"/g, '""')
RECURSIVE DoubleQuotes(_)
DoubleQuotes(str) ==
  IF Len(str) = 0 THEN EmptyString
  ELSE (IF Head(str) = QUOTE THEN <<QUOTE, QUOTE>> ELSE <<Head(str)>>)
         \o DoubleQuotes(Tail(str))

\* str.includes(c)
Includes(str, c) == \E k \in 1..Len(str) : str[k] = c

\* new Date(t).toISOString(), for 0 <= t < 1000
Pad3(t) ==
  IF t < 10 THEN "00" \o ToString(t)
  ELSE IF t < 100 THEN "0" \o ToString(t) ELSE ToString(t)

toISOString(t) == <<"1970-01-01T00:00:00." \o Pad3(t) \o "Z">>

(* ---- JavaScript values of a record ------------------------------------ *)

\* null or undefined
Nullish == [tag |-> "null", s |-> EmptyString]

Str(str) == [tag |-> "str", s |-> str]

\* x || fallback, for x null, undefined or a string
StrOr(x, fallback) ==
  IF x.tag = "null" \/ x.s = EmptyString THEN fallback ELSE x.s

\* String(x || fallback), for x null, NaN or a number
NumOr(x, fallback) ==
  IF x.tag # "num" \/ x.v = 0 THEN fallback ELSE <<ToString(x.v)>>

(* ---- resultsToCSV ----------------------------------------------------- *)

csvHeaders ==
  << <<"network">>, <<"tx_id">>, <<"send_time">>, <<"final_time">>,
     <<"latency_ms">>, <<"status">>, <<"error">> >>

\* The cells of the row of record r, each as String(cell).
csvRow(r, network) ==
  << network,
     StrOr(r.txId, <<"N/A">>),
     toISOString(r.sendTime),
     toISOString(r.finalTime),
     NumOr(r.latency, <<"N/A">>),
     <<r.status>>,
     StrOr(r.error, EmptyString) >>

\* The quoting of one cell.
escapeCell_commaOnly(str) ==
  IF Includes(str, COMMA)
    THEN <<QUOTE>> \o DoubleQuotes(str) \o <<QUOTE>>
    ELSE str

escapeCell(str) ==
  IF Includes(str, COMMA) \/ Includes(str, QUOTE) \/ Includes(str, NEWLINE)
    THEN <<QUOTE>> \o DoubleQuotes(str) \o <<QUOTE>>
    ELSE str

csvLine(cells) ==
  JoinWith([k \in 1..Len(cells) |-> escapeCell(cells[k])], COMMA)

resultsToCSV(rs, network) ==
  JoinWith(<<JoinWith(csvHeaders, COMMA)>>
             \o [k \in 1..Len(rs) |-> csvLine(csvRow(rs[k], network))],
           NEWLINE)

(* ---- the inputs of a conversion --------------------------------------- *)

\* the strings of at most n tokens over an alphabet
RECURSIVE StringsUpTo(_, _)
StringsUpTo(alphabet, n) ==
  IF n = 0 THEN {EmptyString}
  ELSE LET shorter == StringsUpTo(alphabet, n - 1)
       IN shorter \cup {Append(str, c) : str \in shorter, c \in alphabet}

\* error messages: any text
ErrorMessages == StringsUpTo({"e", COMMA, QUOTE, NEWLINE}, MaxErrorLen)

\* network names: a registry key, or any text handed to resultsToCSV
CsvNetworks == {<<"ethereum">>, <<"my", COMMA, "net">>}

\* transaction ids: null or a hash
CsvTxIds == {Nullish, Str(<<"0xabc">>)}

\* latencies: null, or a number of milliseconds
CsvLatencies == {NULL, Num(0), Num(7), Num(12)}

\* The record of a transaction sent at instant 3.
CsvRecord(id, lat, st, err) ==
  [txId |-> id, sendTime |-> 3,
   finalTime |-> IF lat.tag = "num" THEN 3 + lat.v ELSE 3,
   latency |-> lat, status |-> st, error |-> err]

CsvRecords ==
  {CsvRecord(id, lat, st, err) :
     id \in CsvTxIds, lat \in CsvLatencies, st \in {"success", "failed"},
     err \in {Nullish} \cup {Str(m) : m \in ErrorMessages}}

PlainRecord == CsvRecord(Str(<<"0xdef">>), Num(5), "success", Nullish)

(* ---- the conversion as a state machine -------------------------------- *)

InitCsv ==
  /\ csvNetwork \in CsvNetworks
  /\ \E r \in CsvRecords : csvResults \in {<<r>>, <<r, PlainRecord>>}
  /\ csvContent = EmptyString
  /\ csvPc = "input"
  /\ StatsIdle
  /\ RunIdle
  /\ RetryIdle
  /\ SaveIdle
  /\ TableIdle
  /\ MainIdle
  /\ ViewIdle
  /\ AppendIdle

ResultsToCSV ==
  /\ csvPc = "input"
  /\ csvContent' = resultsToCSV(csvResults, csvNetwork)
  /\ csvPc' = "converted"
  /\ UNCHANGED <<csvNetwork, csvResults, notCsvVars>>

NextCsv == ResultsToCSV

SpecCsv == InitCsv /\ [][NextCsv]_vars

(* ---- what the claims about the CSV speak about ------------------------ *)

Converted == csvPc = "converted"

\* A parser of RFC 4180 text: the rows of a text, each the sequence of its
\* fields.  The parser is "start" at the start of a field, "plain" inside an
\* unquoted field, "quoted" inside a quoted field and "closing" after a
\* quote met inside a quoted field.
ParseStep(state, c) ==
  IF state = "quoted" THEN (IF c = QUOTE THEN "closing" ELSE "quoted")
  ELSE IF state = "closing" /\ c = QUOTE THEN "quoted"
  ELSE IF c = COMMA \/ c = NEWLINE THEN "start"
  ELSE IF state = "start" /\ c = QUOTE THEN "quoted"
  ELSE "plain"

ParseStates == {"start", "plain", "quoted", "closing"}

\* The state of the parser after the n tokens that follow position a, read
\* from a given state.
RECURSIVE ParseFrom(_, _, _, _)
ParseFrom(text, a, n, state) ==
  IF state \notin ParseStates \/ n <= 0 THEN state
  ELSE IF n = 1 THEN ParseStep(state, text[a + 1])
  ELSE ParseFrom(text, a + n \div 2, n - n \div 2,
                 ParseFrom(text, a, n \div 2, state))

\* The elements of a set of numbers in ascending order.
Ascend(S) ==
  [n \in 1..Cardinality(S) |->
     CHOOSE p \in S : Cardinality({q \in S : q < p}) = n - 1]

ParseCSV(text) ==
  LET before == [k \in 1..Len(text) |-> ParseFrom(text, 0, k - 1, "start")]
      \* the separators: commas and line breaks outside a quoted field
      seps == {k \in 1..Len(text) :
                 text[k] \in {COMMA, NEWLINE} /\ before[k] # "quoted"}
      \* the tokens that are field text: not a separator, and not a quote
      \* that opens a field or is met inside a quoted field
      kept(k) == /\ k \notin seps
                 /\ ~(text[k] = QUOTE /\ before[k] \in {"start", "quoted"})
      ends == Ascend(seps \cup {Len(text) + 1})
      field(n) ==
        LET lo == IF n = 1 THEN 0 ELSE ends[n - 1]
            inside == SelectSeq([j \in 1..(ends[n] - lo - 1) |-> lo + j], kept)
        IN [j \in 1..Len(inside) |-> text[inside[j]]]
      \* the fields that end a row
      last == Ascend({n \in 1..Len(ends) :
                        ends[n] = Len(text) + 1 \/ text[ends[n]] = NEWLINE})
  IN [r \in 1..Len(last) |->
        [j \in 1..(last[r] - (IF r = 1 THEN 0 ELSE last[r - 1])) |->
           field((IF r = 1 THEN 0 ELSE last[r - 1]) + j)]]

\* the number of quote characters of a string
QuoteCount(str) == Cardinality({k \in 1..Len(str) : str[k] = QUOTE})

HasSpecial(str) == \E k \in 1..Len(str) : str[k] \in SpecialChars

\* the quote characters the quoting rule puts into the text for one field
QuotesFor(str) == IF HasSpecial(str) THEN 2 + 2 * QuoteCount(str) ELSE 0

\* the field strings of the data rows, as handed to the quoting rule
CsvFields == [k \in 1..Len(csvResults) |-> csvRow(csvResults[k], csvNetwork)]

\* C12: every field of every row is quoted, with its quotes doubled, exactly
\* when it contains a comma, a quote or a newline, and a compliant parser
\* recovers the header and each field string from the text.
C12_QuotingRoundTrip ==
  Converted =>
    /\ ParseCSV(csvContent) = <<csvHeaders>> \o CsvFields
    /\ QuoteCount(csvContent) =
         Sum([k \in 1..Len(csvResults) |->
                Sum([f \in 1..7 |-> QuotesFor(CsvFields[k][f])])])

\* a text whose network field holds a comma and whose error field holds a
\* quote and a newline
C12_Witness ==
  /\ Converted
  /\ Includes(csvNetwork, COMMA)
  /\ Includes(CsvFields[1][7], QUOTE)
  /\ Includes(CsvFields[1][7], NEWLINE)

\* the fields a parser reads back for the k-th record
ParsedRow(k) == ParseCSV(csvContent)[k + 1]

\* C13: tx_id is N/A exactly when txId is null, latency_ms is N/A exactly
\* when latency is null and otherwise the decimal latency, including 0, and
\* error is empty when the record has no error.
C13_PlaceholderOnlyForNull ==
  Converted =>
    \A k \in 1..Len(csvResults) :
      /\ (ParsedRow(k)[2] = <<"N/A">>) <=> (csvResults[k].txId = Nullish)
      /\ (ParsedRow(k)[5] = <<"N/A">>) <=> (csvResults[k].latency = NULL)
      /\ csvResults[k].latency.tag = "num" =>
           ParsedRow(k)[5] = <<ToString(csvResults[k].latency.v)>>
      /\ csvResults[k].error = Nullish => ParsedRow(k)[7] = EmptyString

(***************************************************************************)
(* The export: saveResults of utils/output writes the report of all        *)
(* networks as one JSON file and one CSV file; the viewer's readJSON       *)
(* parses a JSON file back.  A JavaScript object is the sequence of its    *)
(* own fields, each a key and a value; a JSON text is the structure        *)
(* JSON.stringify keeps of it.                                             *)
(***************************************************************************)

(* ---- bounds of the export --------------------------------------------- *)

\* the most networks of a report
MaxNetworks == 2

\* the most records of one network
MaxRows == 1

\* the most calls of saveResults in one process
MaxSaves == 2

\* the last millisecond of the clock
MaxClock == 1

(* ---- JavaScript values and JSON --------------------------------------- *)

JsNum(x) == [tag |-> "num", v |-> x, s |-> EmptyString]

JsStr(str) == [tag |-> "str", v |-> 0, s |-> str]

JsNull == [tag |-> "null", v |-> 0, s |-> EmptyString]

JsNaN == [tag |-> "nan", v |-> 0, s |-> EmptyString]

JsUndefined == [tag |-> "undefined", v |-> 0, s |-> EmptyString]

\* the value of an entry of a latencies array
JsOfEntry(e) ==
  IF e.tag = "num" THEN JsNum(e.v) ELSE IF e.tag = "nan" THEN JsNaN ELSE JsNull

\* the value of a string that may be missing: null for a transaction id,
\* undefined for an error message
JsOfString(x, missing) == IF x.tag = "str" THEN JsStr(x.s) ELSE missing

Field(key, val) == [key |-> key, val |-> val]

\* JSON.stringify of an object of primitive values: a field whose value is
\* undefined is left out, NaN is written as null.
jsonStringifyObject(obj) ==
  LET kept == SelectSeq(obj, LAMBDA f : f.val.tag # "undefined")
  IN [k \in 1..Len(kept) |->
        Field(kept[k].key,
              IF kept[k].val.tag = "nan" THEN JsNull ELSE kept[k].val)]

\* JSON.parse of the text of an object: the object of the fields written.
jsonParseObject(text) == [k \in 1..Len(text) |-> Field(text[k].key, text[k].val)]

(* ---- the records and summaries of a report ---------------------------- *)

\* A success record of lib/solana: blockTime and slot are read through
\* txDetails?., and are undefined when getTransaction returned null.
SolanaSuccess(withDetails) ==
  [txId |-> Str(<<"5sig">>), sendTime |-> 3, finalTime |-> 8,
   latency |-> Num(5), status |-> "success", error |-> Nullish,
   blockTime |-> IF withDetails THEN JsNum(1) ELSE JsUndefined,
   slot |-> IF withDetails THEN JsNum(2) ELSE JsUndefined]

\* A failed record of sendTransaction.
SaveFailed ==
  [txId |-> Nullish, sendTime |-> 3, finalTime |-> 5, latency |-> Num(2),
   status |-> "failed", error |-> Str(<<"timeout">>),
   blockTime |-> JsUndefined, slot |-> JsUndefined]

SaveRecords == {SolanaSuccess(TRUE), SolanaSuccess(FALSE), SaveFailed}

\* The own fields of a record, in the order the adapter wrote them.
ownFields(r) ==
  IF r.status = "success"
    THEN << Field("txId", JsOfString(r.txId, JsNull)),
            Field("sendTime", JsNum(r.sendTime)),
            Field("finalTime", JsNum(r.finalTime)),
            Field("latency", JsOfEntry(r.latency)),
            Field("blockTime", r.blockTime),
            Field("slot", r.slot),
            Field("status", JsStr(<<r.status>>)) >>
    ELSE << Field("txId", JsOfString(r.txId, JsNull)),
            Field("sendTime", JsNum(r.sendTime)),
            Field("finalTime", JsNum(r.finalTime)),
            Field("latency", JsOfEntry(r.latency)),
            Field("status", JsStr(<<r.status>>)),
            Field("error", JsOfString(r.error, JsUndefined)) >>

StatsKeys ==
  <<"count", "failures", "average", "txPerSecond", "median", "stdDev",
    "min", "max", "p90", "p95", "p99">>

\* The summary object calculateStats returned.
statsObject(r) == [k \in 1..Len(StatsKeys) |-> Field(StatsKeys[k], JsNum(r[StatsKeys[k]]))]

\* the registry keys, in the order main runs the networks
SaveNetworkNames == <<"ethereum", "solana", "near">>

\* the lists of at most n records
RECURSIVE RecordLists(_)
RecordLists(n) ==
  IF n = 0 THEN {<<>>}
  ELSE LET shorter == RecordLists(n - 1)
       IN shorter \cup {Append(l, r) : l \in shorter, r \in SaveRecords}

\* What runNetworkBenchmark returns for a network: its records and their
\* summary.
ReportsOf(name) ==
  UNION {{[network |-> name, results |-> rs, stats |-> statsObject(st)] :
            st \in calculateStats(benchLatencies(rs), benchFailures(rs))} :
         rs \in RecordLists(MaxRows)}

(* ---- saveResults ------------------------------------------------------ *)

\* new Date().toISOString().replace(/[:.]/g, '-')
timestampOf(t) == "1970-01-01T00-00-00-" \o Pad3(t) \o "Z"

\* outputPath.replace(/\.(json|csv)$/, '')
basePathOf(path) ==
  IF path.ext \in {".json", ".csv"} THEN path.stem ELSE path.stem \o path.ext

\* lines.slice(1).join('\n') of a CSV text: what follows its first newline
RECURSIVE AfterFirstLine(_)
AfterFirstLine(text) ==
  IF Len(text) = 0 THEN EmptyString
  ELSE IF Head(text) = NEWLINE THEN Tail(text)
  ELSE AfterFirstLine(Tail(text))

\* The loop over Object.entries(networkResults) that assembles csvContent.
RECURSIVE assembleCSV(_, _, _)
assembleCSV(reports, k, soFar) ==
  IF k > Len(reports) THEN soFar
  ELSE LET networkCSV == resultsToCSV(reports[k].results, <<reports[k].network>>)
       IN assembleCSV(reports, k + 1,
            IF k = 1 THEN networkCSV
            ELSE soFar \o <<NEWLINE>> \o AfterFirstLine(networkCSV))

\* JSON.stringify(jsonData), without the config of each network
jsonStringify(reports, t) ==
  [timestamp |-> toISOString(t),
   networks |-> [k \in 1..Len(reports) |->
     [network |-> reports[k].network,
      stats |-> jsonStringifyObject(reports[k].stats),
      results |-> [j \in 1..Len(reports[k].results) |->
                     jsonStringifyObject(ownFields(reports[k].results[j]))]]]]

\* JSON.parse of a report
jsonParse(text) ==
  [timestamp |-> text.timestamp,
   networks |-> [k \in 1..Len(text.networks) |->
     [network |-> text.networks[k].network,
      stats |-> jsonParseObject(text.networks[k].stats),
      results |-> [j \in 1..Len(text.networks[k].results) |->
                     jsonParseObject(text.networks[k].results[j])]]]]

\* fs.writeFileSync(path, content)
writeFile(files, path, content) ==
  {f \in files : f.path # path} \cup {[path |-> path, content |-> content]}

(* ---- the export as a state machine ------------------------------------ *)

InitSave ==
  /\ \E n \in 0..MaxNetworks :
       /\ n <= Len(SaveNetworkNames)
       /\ networkResults \in
            {reports \in [1..n -> UNION {ReportsOf(SaveNetworkNames[k]) : k \in 1..n}] :
               \A k \in 1..n : reports[k].network = SaveNetworkNames[k]}
  /\ outputPath \in {[stem |-> "results/benchmark", ext |-> e] : e \in {"", ".json"}}
  /\ saveClock = 0
  /\ jsonFiles = {}
  /\ csvFiles = {}
  /\ saves = <<>>
  /\ readBack = <<>>
  /\ savePc = "ready"
  /\ StatsIdle
  /\ RunIdle
  /\ RetryIdle
  /\ CsvIdle
  /\ TableIdle
  /\ MainIdle
  /\ ViewIdle
  /\ AppendIdle

\* A millisecond passes.
SaveTick ==
  /\ savePc = "ready"
  /\ saveClock < MaxClock
  /\ saveClock' = saveClock + 1
  /\ UNCHANGED <<networkResults, outputPath, jsonFiles, csvFiles, saves,
                 readBack, savePc, notSaveVars>>

\* saveResults(networkResults, outputPath)
SaveResults ==
  /\ savePc = "ready"
  /\ Len(saves) < MaxSaves
  /\ LET stem == basePathOf(outputPath) \o "-" \o timestampOf(saveClock)
         jsonPath == stem \o ".json"
         csvPath == stem \o ".csv"
         csvText == assembleCSV(networkResults, 1, EmptyString)
     IN /\ jsonFiles' = writeFile(jsonFiles, jsonPath,
                                  jsonStringify(networkResults, saveClock))
        /\ csvFiles' = writeFile(csvFiles, csvPath, csvText)
        /\ saves' = Append(saves, [stem |-> stem, jsonPath |-> jsonPath,
                                   csvPath |-> csvPath, csvContent |-> csvText])
  /\ UNCHANGED <<networkResults, outputPath, saveClock, readBack, savePc,
                 notSaveVars>>

\* The viewer reads a report back: JSON.parse of the file's content.
ReadJSON ==
  /\ savePc = "ready"
  /\ \E f \in jsonFiles : readBack' = <<jsonParse(f.content)>>
  /\ savePc' = "read"
  /\ UNCHANGED <<networkResults, outputPath, saveClock, jsonFiles, csvFiles,
                 saves, notSaveVars>>

NextSave ==
  \/ SaveTick
  \/ SaveResults
  \/ ReadJSON

SpecSave == InitSave /\ [][NextSave]_vars

(* ---- what the claims about the export speak about --------------------- *)

\* the field strings of all data rows of the report, in iteration order
RECURSIVE AllRows(_)
AllRows(k) ==
  IF k > Len(networkResults) THEN <<>>
  ELSE [j \in 1..Len(networkResults[k].results) |->
          csvRow(networkResults[k].results[j], <<networkResults[k].network>>)]
       \o AllRows(k + 1)

\* C14: the CSV text saveResults assembles is one header line followed by
\* exactly the data rows of every network in iteration order, with no
\* second header and no blank line.
C14_OneHeaderThenAllRows ==
  \A k \in 1..Len(saves) :
    ParseCSV(saves[k].csvContent) = <<csvHeaders>> \o AllRows(1)

ReadDone == savePc = "read"

\* C15: the report parsed back from the JSON file holds, for each network,
\* the summary that was serialized, field for field, and the same records
\* in the same order with every field they had.
C15_JsonRoundTrip ==
  ReadDone =>
    /\ Len(readBack[1].networks) = Len(networkResults)
    /\ \A k \in 1..Len(networkResults) :
         /\ readBack[1].networks[k].network = networkResults[k].network
         /\ readBack[1].networks[k].stats = networkResults[k].stats
         /\ readBack[1].networks[k].results =
              [j \in 1..Len(networkResults[k].results) |->
                 ownFields(networkResults[k].results[j])]

\* C16: two calls of saveResults with the same base path write distinct
\* .json and .csv paths, and the two files of one call share their stem.
C16_DistinctPathsPerCall ==
  /\ \A a \in 1..Len(saves) :
       /\ saves[a].jsonPath = saves[a].stem \o ".json"
       /\ saves[a].csvPath = saves[a].stem \o ".csv"
  /\ \A a \in 1..Len(saves), b \in 1..Len(saves) :
       a < b => /\ saves[a].jsonPath # saves[b].jsonPath
                /\ saves[a].csvPath # saves[b].csvPath
  /\ Cardinality(jsonFiles) = Len(saves)
  /\ Cardinality(csvFiles) = Len(saves)

(***************************************************************************)
(* The summary table: printSummaryTable of utils/output, which the         *)
(* benchmark prints after its runs, and displayTable of the viewer.  A     *)
(* printed line is the sequence of its padded cells and the separator      *)
(* they are joined with.                                                   *)
(***************************************************************************)

(* ---- bounds of the table ---------------------------------------------- *)

\* the most rows of a table
MaxTableRows == 2

(* ---- strings of a table ----------------------------------------------- *)

\* String.prototype.padEnd
RECURSIVE padEnd(_, _)
padEnd(str, width) == IF Len(str) >= width THEN str ELSE padEnd(str \o " ", width)

\* String.prototype.toUpperCase, on the registry keys of the tables
toUpperCase(name) ==
  CASE name = "sui" -> "SUI"
    [] name = "near" -> "NEAR"
    [] name = "solana" -> "SOLANA"
    [] name = "e" -> "E"
    [] name = "," -> ","
    [] name = "\"" -> "\""
    [] name = "\n" -> "\n"
    [] name = "arbitrum" -> "ARBITRUM"
    [] name = "base" -> "BASE"
    [] name = "ethereum" -> "ETHEREUM"
    [] name = "polygon-zkevm" -> "POLYGON-ZKEVM"

\* String(x) of a txPerSecond held in hundredths
Pad2(x) == IF x < 10 THEN "0" \o ToString(x) ELSE ToString(x)

StringOfHundredths(h) ==
  IF h % 100 = 0 THEN ToString(h \div 100)
  ELSE IF h % 10 = 0
    THEN ToString(h \div 100) \o "." \o ToString((h % 100) \div 10)
    ELSE ToString(h \div 100) \o "." \o Pad2(h % 100)

\* The rendered cells of one network's row, before padding: String(v) of
\* the values of formatStatsTable, the upper-cased name first.
tableCells(row) ==
  << toUpperCase(row.network),
     ToString(row.stats.count),
     ToString(row.stats.failures),
     ToString(row.stats.average),
     StringOfHundredths(row.stats.txPerSecond),
     ToString(row.stats.median),
     ToString(row.stats.stdDev),
     ToString(row.stats.min),
     ToString(row.stats.max),
     ToString(row.stats.p90),
     ToString(row.stats.p95),
     ToString(row.stats.p99) >>

tableHeaders ==
  <<"Network", "Count", "Failures", "ms/tx", "tx/s", "Median (ms)",
    "StdDev (ms)", "Min (ms)", "Max (ms)", "P90 (ms)", "P95 (ms)", "P99 (ms)">>

\* the greatest of a non-empty set of numbers
MaxOf(set) == CHOOSE x \in set : \A y \in set : y <= x

(* ---- printSummaryTable ------------------------------------------------ *)

\* the padding printSummaryTable adds to every column
SummaryPadding == 2

\* String(Object.values(row)[i] || '').length: a value of 0 counts as ''.
dataWidthOf(row, col) ==
  IF col > 1 /\ tableCells(row)[col] = "0" THEN 0 ELSE Len(tableCells(row)[col])

colWidths(rows) ==
  [col \in 1..Len(tableHeaders) |->
     MaxOf({Len(tableHeaders[col])}
             \cup {dataWidthOf(rows[r], col) : r \in 1..Len(rows)})
       + SummaryPadding]

printSummaryTable(rows) ==
  [header |-> [cells |-> [col \in 1..Len(tableHeaders) |->
                            padEnd(tableHeaders[col], colWidths(rows)[col])],
               sep |-> ""],
   rows |-> [r \in 1..Len(rows) |->
               [cells |-> [col \in 1..Len(tableHeaders) |->
                             padEnd(tableCells(rows[r])[col], colWidths(rows)[col])],
                sep |-> ""]]]

(* ---- displayTable of the viewer --------------------------------------- *)

\* the literal header line, cut at its column starts
viewerHeader ==
  <<"Network  ", "Count  ", "Failures  ", "ms/tx     ", "tx/s      ",
    "Median (ms)  ", "StdDev (ms)  ", "Min (ms)  ", "Max (ms)  ",
    "P90 (ms)  ", "P95 (ms)  ", "P99 (ms)">>

\* the widths handed to padEnd
viewerWidths == <<8, 6, 9, 9, 9, 12, 12, 9, 9, 9, 9, 9>>

displayTable(rows) ==
  [header |-> [cells |-> viewerHeader, sep |-> ""],
   rows |-> [r \in 1..Len(rows) |->
               [cells |-> [col \in 1..Len(viewerWidths) |->
                             padEnd(tableCells(rows[r])[col], viewerWidths[col])],
                sep |-> " "]]]

(* ---- the inputs of a table -------------------------------------------- *)

TablePrograms == {"benchmark", "viewer"}

TableNetworks == {"sui", "ethereum", "polygon-zkevm"}

\* the summaries of an empty run, of the five-sample run and of one slow
\* transaction with one failure
TableStats ==
  calculateStats(<<>>, 0) \cup calculateStats(ScenarioFive, 0)
    \cup calculateStats(<<Num(123456)>>, 1)

TableRowsOf == {[network |-> n, stats |-> st] : n \in TableNetworks, st \in TableStats}

(* ---- the table as a state machine ------------------------------------- *)

InitTable ==
  /\ tblProgram \in TablePrograms
  /\ \E n \in 1..MaxTableRows : tblRows \in [1..n -> TableRowsOf]
  /\ tblOutput = <<>>
  /\ tblPc = "input"
  /\ StatsIdle
  /\ RunIdle
  /\ RetryIdle
  /\ CsvIdle
  /\ SaveIdle
  /\ MainIdle
  /\ ViewIdle
  /\ AppendIdle

\* The benchmark prints its summary.
PrintSummaryTable ==
  /\ tblPc = "input"
  /\ tblProgram = "benchmark"
  /\ tblOutput' = <<printSummaryTable(tblRows)>>
  /\ tblPc' = "printed"
  /\ UNCHANGED <<tblProgram, tblRows, notTableVars>>

\* The viewer prints the table of a report.
DisplayTable ==
  /\ tblPc = "input"
  /\ tblProgram = "viewer"
  /\ tblOutput' = <<displayTable(tblRows)>>
  /\ tblPc' = "printed"
  /\ UNCHANGED <<tblProgram, tblRows, notTableVars>>

NextTable ==
  \/ PrintSummaryTable
  \/ DisplayTable

SpecTable == InitTable /\ [][NextTable]_vars

(* ---- what the claims about the table speak about ---------------------- *)

Printed == tblPc = "printed"

Columns == 1..Len(tableHeaders)

\* the offset at which the cell of a column starts in a printed line
StartOf(line, col) ==
  Sum([j \in 1..(col - 1) |-> Len(line.cells[j]) + Len(line.sep)])

\* the length of the longest rendered cell of a column
LongestCell(col) == MaxOf({Len(tableCells(tblRows[r])[col]) : r \in 1..Len(tblRows)})

\* the width the claim gives a column, for a padding
ClaimedWidth(col, padding) ==
  MaxOf({Len(tableHeaders[col]), LongestCell(col)}) + padding

\* the paddings looked for
Paddings == 1..4

\* C17: in every printed table, each column is as wide as the longer of
\* its header and its longest cell plus one padding, at least 1 and the
\* same for all columns: the cell of a column starts at the same offset in
\* every line and is followed by at least one space.
C17_ColumnsAligned ==
  Printed =>
    /\ \E padding \in Paddings :
         \A col \in Columns \ {Len(tableHeaders)} :
           StartOf(tblOutput[1].header, col + 1)
             - StartOf(tblOutput[1].header, col) = ClaimedWidth(col, padding)
    /\ \A r \in 1..Len(tblRows), col \in Columns :
         /\ StartOf(tblOutput[1].rows[r], col) = StartOf(tblOutput[1].header, col)
         /\ col < Len(tableHeaders) =>
              StartOf(tblOutput[1].rows[r], col + 1)
                >= StartOf(tblOutput[1].rows[r], col)
                     + Len(tableCells(tblRows[r])[col]) + 1

(***************************************************************************)
(* Further properties of retry, of an adapter run, of the export and of    *)
(* the command line program.                                               *)
(***************************************************************************)

\* What the TypeScript retry has done once fn has settled as in calls: it
\* throws Error('Retry failed') without a call when maxRetries <= 0, returns
\* the value of a resolved call, rethrows the error of the call number
\* maxRetries, and is otherwise still running.
tsRetryOutcome(limit, calls) ==
  IF limit <= 0 THEN [kind |-> "rejected", val |-> "Retry failed"]
  ELSE IF Len(calls) = 0 THEN [kind |-> "pending", val |-> ""]
  ELSE IF calls[Len(calls)].ok
    THEN [kind |-> "resolved", val |-> calls[Len(calls)].val]
  ELSE IF Len(calls) = limit
    THEN [kind |-> "rejected", val |-> calls[Len(calls)].val]
  ELSE [kind |-> "pending", val |-> ""]

\* C30: for every maxRetries, zero and negative included, retry resolves
\* only with a value that an invocation of fn resolved with and otherwise
\* rejects, and the JavaScript version ends as the TypeScript version does
\* for the same fn.
C30_NoSuccessWithoutCall ==
  RetrySettled =>
    /\ rtResult.kind \in {"resolved", "rejected"}
    /\ rtResult.kind = "resolved" =>
         \E j \in 1..Len(rtCalls) : rtCalls[j].ok /\ rtCalls[j].val = rtResult.val
    /\ rtResult = tsRetryOutcome(maxRetries, rtCalls)

\* The transactions of the run that are submitted and not yet settled.
InFlight == {k \in 1..numTxs : txs[k].state = "pending"}

C27_OneRecordPerAttempt ==
  /\ pc = "rejected" => \A k \in 1..numTxs : attempts[k] = 0
  /\ Returned =>
       /\ Len(results) = numTxs
       /\ \A k \in 1..numTxs :
            /\ results[k] = txs[k].rec
            /\ results[k].status \in {"success", "failed"}

\* C22: in every adapter, when the balance read at start-up is below the
\* estimated total cost, runBenchmark rejects before any transaction is
\* submitted and the run yields no records.
C22_InsufficientBalanceAborts ==
  balance < totalCost(numTxs) =>
    /\ pc \in {"start", "rejected"}
    /\ \A k \in 1..numTxs : attempts[k] = 0 /\ txs[k].state = "new"
    /\ results = <<>>

(***************************************************************************)
(* The command line program: main of the benchmark CLI validates the       *)
(* selection and the credentials, asks for confirmation, benchmarks the    *)
(* selected networks one after the other, prints the summary table and     *)
(* exports the results.  `events` is what the process has done, in order:  *)
(* console output, prompts, calls of runBenchmark and file export.         *)
(***************************************************************************)

(* ---- bounds of the command line model --------------------------------- *)

MaxRegistry == 3

(* ---- the registry and the configuration ------------------------------- *)

\* Object.keys(NETWORKS)
NETWORKS ==
  <<"near", "ethereum", "arbitrum", "base", "optimism", "polygon",
    "avalanche", "bsc", "zksync", "polygon-zkevm", "solana", "aptos", "sui">>

\* The registry of the model: the first networks of NETWORKS.
allNetworks == SubSeq(NETWORKS, 1, MaxRegistry)

Range(seq) == {seq[k] : k \in 1..Len(seq)}

networkType(net) ==
  IF net \in {"near", "solana", "aptos", "sui"} THEN "custom" ELSE "evm"

\* The items validateConfig can report for a network, in the order it tests
\* them.  An item of an EVM network is present when config.privateKey
\* (config.toAddress) is set, from the network's own variable or from the
\* ETH_ default; an item of the other networks is present when the
\* environment variable is set.
requiredItems(net) ==
  CASE net = "near" -> <<"NEAR_ACCOUNT_ID", "NEAR_PRIVATE_KEY">>
    [] net = "solana" -> <<"SOL_PRIVATE_KEY", "SOL_TO_ADDRESS">>
    [] net = "aptos" -> <<"APTOS_PRIVATE_KEY", "APTOS_TO_ADDRESS">>
    [] net = "sui" -> <<"SUI_PRIVATE_KEY", "SUI_TO_ADDRESS">>
    [] OTHER -> <<toUpperCase(net) \o "_PRIVATE_KEY (or ETH_PRIVATE_KEY)",
                  toUpperCase(net) \o "_TO_ADDRESS (or ETH_TO_ADDRESS)">>

\* validateConfig(network, config): the missing items, in order.
validateConfig_firstItem(net, present) ==
  LET missing == SelectSeq(requiredItems(net), LAMBDA item : item \notin present)
  IN IF missing = <<>> THEN <<>> ELSE <<Head(missing)>>

validateConfig(net, present) ==
  SelectSeq(requiredItems(net), LAMBDA item : item \notin present)

\* configErrors: the selected networks that miss an item, in selection order.
configErrors(nets, present) ==
  SelectSeq(nets, LAMBDA net : validateConfig(net, present) # <<>>)

AllItems == UNION {Range(requiredItems(net)) : net \in Range(allNetworks)}

Event(ev, net, data) == [ev |-> ev, net |-> net, data |-> data]

\* console.error of the configuration error: every network of configErrors
\* and under it every missing item.
missingReport(nets, present) ==
  [k \in 1..Len(configErrors(nets, present)) |->
     Event("missing", configErrors(nets, present)[k],
           validateConfig(configErrors(nets, present)[k], present))]

\* A failed submission of lib/evm in parallel mode rejects a promise that
\* has no handler while the sending loop awaits sleep(delayMs): Promise.all
\* attaches the handler only after the loop.  Node reports an unhandled
\* rejection, which ends the process from Node 15 on and only warns before.
unhandledRejectionPossible(net, opts) ==
  /\ networkType(net) = "evm"
  /\ opts.parallel
  /\ opts.rate > 0
  /\ opts.txs >= 2

(* ---- main as a state machine ------------------------------------------ *)

Selections == Range(allNetworks) \cup {"all", "unknown"}

InitMain ==
  /\ env \in SUBSET AllItems
  /\ options \in [network : Selections, txs : {1, 2}, rate : {0, 1},
                  parallel : BOOLEAN, out : {"", "./results/benchmark"},
                  confirm : BOOLEAN]
  /\ networksToRun = <<>>
  /\ netIndex = 0
  /\ benchResults = <<>>
  /\ summaryData = <<>>
  /\ events = <<>>
  /\ exitCode = "none"
  /\ mainPc = "start"
  /\ StatsIdle
  /\ RunIdle
  /\ RetryIdle
  /\ CsvIdle
  /\ SaveIdle
  /\ TableIdle
  /\ ViewIdle
  /\ AppendIdle

\* network === 'all' ? allNetworks : [network]
Selected ==
  IF options.network = "all" THEN allNetworks ELSE <<options.network>>

\* main up to the confirmation: the selection is resolved and validated,
\* the configuration is loaded and validated; an unknown network or a
\* missing item is reported and the process exits with code 1.
ValidateSelection ==
  /\ mainPc = "start"
  /\ LET nets == Selected
     IN /\ networksToRun' = nets
        /\ IF \E k \in 1..Len(nets) : nets[k] \notin Range(allNetworks)
             THEN /\ events' = Append(events, Event("unknown", nets[1], <<>>))
                  /\ exitCode' = "1"
                  /\ mainPc' = "exited"
           ELSE IF configErrors(nets, env) # <<>>
             THEN /\ events' = events \o missingReport(nets, env)
                  /\ exitCode' = "1"
                  /\ mainPc' = "exited"
           ELSE /\ events' = events
                /\ exitCode' = exitCode
                /\ mainPc' = "confirm"
  /\ UNCHANGED <<env, options, netIndex, benchResults, summaryData,
                 notMainVars>>

\* showWarningAndConfirm: the warning is printed; with --no-confirm the
\* function returns, otherwise it asks the question.
ShowWarning ==
  /\ mainPc = "confirm"
  /\ events' = Append(events, Event("warning", "", networksToRun))
  /\ mainPc' = IF options.confirm THEN "prompt" ELSE "run"
  /\ UNCHANGED <<env, options, networksToRun, netIndex, benchResults,
                 summaryData, exitCode, notMainVars>>

\* The answer to 'Type "yes" to proceed: '.
Answer(yes) ==
  /\ mainPc = "prompt"
  /\ IF yes
       THEN /\ events' = Append(events, Event("prompt", "yes", <<>>))
            /\ mainPc' = "run"
            /\ UNCHANGED exitCode
       ELSE /\ events' = Append(events, Event("prompt", "no", <<>>))
            /\ exitCode' = "0"
            /\ mainPc' = "exited"
  /\ UNCHANGED <<env, options, networksToRun, netIndex, benchResults,
                 summaryData, notMainVars>>

\* One iteration of the loop over networksToRun: runNetworkBenchmark
\* resolves and the network gets its entry and its summary row, or it
\* rejects and the catch block logs the error.
RunNetwork(completed) ==
  /\ mainPc = "run"
  /\ netIndex < Len(networksToRun)
  /\ LET net == networksToRun[netIndex + 1]
     IN IF completed
          THEN /\ events' = Append(events, Event("runBenchmark", net, <<>>))
               /\ benchResults' = Append(benchResults, net)
               /\ summaryData' = Append(summaryData, toUpperCase(net))
          ELSE /\ events' = events \o <<Event("runBenchmark", net, <<>>),
                                       Event("runError", net, <<>>)>>
               /\ UNCHANGED <<benchResults, summaryData>>
  /\ netIndex' = netIndex + 1
  /\ UNCHANGED <<env, options, networksToRun, exitCode, mainPc, notMainVars>>

\* One iteration of the loop in which the unhandled rejection of a failed
\* parallel submission ends the process.
RunNetworkCrash ==
  /\ mainPc = "run"
  /\ netIndex < Len(networksToRun)
  /\ unhandledRejectionPossible(networksToRun[netIndex + 1], options)
  /\ events' = events \o
       <<Event("runBenchmark", networksToRun[netIndex + 1], <<>>),
         Event("unhandledRejection", networksToRun[netIndex + 1], <<>>)>>
  /\ exitCode' = "1"
  /\ mainPc' = "exited"
  /\ UNCHANGED <<env, options, networksToRun, netIndex, benchResults,
                 summaryData, notMainVars>>

\* After the loop: printSummaryTable(summaryData) when a network completed.
PrintSummary ==
  /\ mainPc = "run"
  /\ netIndex = Len(networksToRun)
  /\ events' = IF Len(summaryData) > 0
                 THEN Append(events, Event("table", "", summaryData))
                 ELSE events
  /\ mainPc' = "export"
  /\ UNCHANGED <<env, options, networksToRun, netIndex, benchResults,
                 summaryData, exitCode, notMainVars>>

\* Where main goes after saveResults: its rejection is caught by the catch
\* block around the call, so main goes on either way.
afterSaveResults_rethrown(written) == IF written THEN "finish" ELSE "exited"

afterSaveResults(written) == "finish"

\* if (options.out) try { await saveResults(networkResults, options.out) }
\* catch (error) { console.error('Error saving results: ...') }
ExportResults(written) ==
  /\ mainPc = "export"
  /\ events' =
       IF options.out = "" THEN events
       ELSE IF written
         THEN Append(events, Event("saveResults", options.out, benchResults))
         ELSE events \o <<Event("saveResults", options.out, <<>>),
                          Event("saveError", options.out, <<>>)>>
  /\ mainPc' = afterSaveResults(options.out = "" \/ written)
  /\ UNCHANGED <<env, options, networksToRun, netIndex, benchResults,
                 summaryData, exitCode, notMainVars>>

\* console.log('All benchmarks completed!'): main returns and the process
\* ends with code 0.
Finish ==
  /\ mainPc = "finish"
  /\ events' = Append(events, Event("completed", "", <<>>))
  /\ exitCode' = "0"
  /\ mainPc' = "done"
  /\ UNCHANGED <<env, options, networksToRun, netIndex, benchResults,
                 summaryData, notMainVars>>

\* The steps main takes by itself, without the user.
MainStep ==
  \/ ValidateSelection
  \/ ShowWarning
  \/ \E completed \in BOOLEAN : RunNetwork(completed)
  \/ RunNetworkCrash
  \/ PrintSummary
  \/ \E written \in BOOLEAN : ExportResults(written)
  \/ Finish

NextMain ==
  \/ MainStep
  \/ \E yes \in BOOLEAN : Answer(yes)

SpecMain == InitMain /\ [][NextMain]_vars

\* Every await of main settles, so the process goes on while it can.
SpecMainFair == SpecMain /\ WF_vars(MainStep)

(* ---- what the claims about main speak about --------------------------- *)

\* The positions of the events of one kind.
EventsOf(ev) == {k \in 1..Len(events) : events[k].ev = ev}

\* The networks whose runBenchmark has been called, and those whose
\* benchmark failed.
Benchmarked == {events[k].net : k \in EventsOf("runBenchmark")}

FailedNetworks ==
  {events[k].net : k \in EventsOf("runError") \cup EventsOf("unhandledRejection")}

AfterTheLoop == mainPc \in {"export", "finish", "done"}

\* C21: when the benchmark of a network fails with a fatal error, the
\* networks after it are still benchmarked, the failed network has no row in
\* the summary table and no entry in the saved results, the completed
\* networks keep their rows in run order, and the process goes on to the
\* summary and the export.
C21_FailureIsolated ==
  /\ FailedNetworks # {} => mainPc # "exited"
  /\ benchResults =
       SelectSeq(SubSeq(networksToRun, 1, netIndex),
                 LAMBDA net : net \notin FailedNetworks)
  /\ summaryData = [k \in 1..Len(benchResults) |-> toUpperCase(benchResults[k])]
  /\ AfterTheLoop =>
       /\ Benchmarked = Range(networksToRun)
       /\ Len(summaryData) > 0 =>
            \E k \in EventsOf("table") : events[k].data = summaryData
  /\ \A k \in EventsOf("saveResults") \cup EventsOf("table") :
       \A j \in 1..Len(events[k].data) :
         /\ events[k].data[j] \notin FailedNetworks
         /\ \A net \in FailedNetworks : events[k].data[j] # toUpperCase(net)

\* A selected network lacks a required item.
MissingCase ==
  /\ options.network # "unknown"
  /\ configErrors(Selected, env) # <<>>

\* C23: when a selected network lacks a required credential, the program
\* reports every missing item of every selected network and exits with a
\* non-zero code, before the confirmation prompt and before any call of
\* runBenchmark.
C23_MissingCredentialsReported ==
  /\ [](MissingCase =>
          /\ EventsOf("warning") = {}
          /\ EventsOf("prompt") = {}
          /\ EventsOf("runBenchmark") = {}
          /\ mainPc \in {"start", "exited"}
          /\ mainPc = "exited" =>
               /\ exitCode = "1"
               /\ \A k \in 1..Len(events) : events[k].ev = "missing"
               /\ \A n \in 1..Len(Selected) :
                    \A item \in Range(requiredItems(Selected[n])) \ env :
                      \E k \in EventsOf("missing") :
                        /\ events[k].net = Selected[n]
                        /\ item \in Range(events[k].data))
  /\ MissingCase ~> (mainPc = "exited" /\ exitCode = "1")

\* Every network was selected, two of them lack items, one of them both of
\* its items, and the program has exited.
C23_Witness ==
  /\ MissingCase
  /\ mainPc = "exited"
  /\ options.network = "all"
  /\ Len(events) = 2
  /\ \E k \in 1..2 : Len(events[k].data) = 2

ExportFailed == EventsOf("saveError") # {}

\* C24: when writing the output files fails, the error is logged and the
\* run still completes; the summary table of the completed networks was
\* printed before the export was attempted, and the export leaves the
\* results and the summary rows in memory as they were.
C24_ExportFailureTolerated ==
  /\ [](ExportFailed =>
          /\ mainPc \in {"finish", "done"}
          /\ exitCode \in {"none", "0"}
          /\ \A f \in EventsOf("saveError") :
               /\ events[f - 1].ev = "saveResults"
               /\ Len(summaryData) > 0 =>
                    \E t \in EventsOf("table") :
                      t < f - 1 /\ events[t].data = summaryData
          /\ summaryData =
               [k \in 1..Len(benchResults) |-> toUpperCase(benchResults[k])]
          /\ Range(benchResults) = Range(networksToRun) \ FailedNetworks)
  /\ [][mainPc = "export" =>
          benchResults' = benchResults /\ summaryData' = summaryData]_vars
  /\ ExportFailed ~> (mainPc = "done" /\ exitCode = "0")

\* Two networks completed, their table was printed, the export failed and
\* the run has completed.
C24_Witness ==
  /\ ExportFailed
  /\ mainPc = "done"
  /\ Len(summaryData) = 2
  /\ FailedNetworks # {}
  /\ EventsOf("table") # {}

(***************************************************************************)
(* The viewer on a .csv report: saveResults writes the records of the      *)
(* networks as one CSV text, readCSV of view-results re-derives a summary  *)
(* per network from that text and displayTable prints the summaries.  The  *)
(* stand-alone viewer reduces the latencies with its own calculateStats,   *)
(* the other viewers (JavaScript and TypeScript) with utils/stats.         *)
(***************************************************************************)

(* ---- bounds of the viewer model --------------------------------------- *)

MaxViewRows == 2

MaxViewLatency == 7

(* ---- strings ---------------------------------------------------------- *)

\* str.split(sep): the pieces of a text between the separators
RECURSIVE SplitFrom(_, _, _, _)
SplitFrom(text, sep, piece, pieces) ==
  IF Len(text) = 0 THEN Append(pieces, piece)
  ELSE IF Head(text) = sep
    THEN SplitFrom(Tail(text), sep, EmptyString, Append(pieces, piece))
    ELSE SplitFrom(Tail(text), sep, Append(piece, Head(text)), pieces)

split(text, sep) == SplitFrom(text, sep, EmptyString, <<>>)

\* str.trim(): the only white space of a text is its line breaks
RECURSIVE trimStart(_)
trimStart(text) ==
  IF Len(text) > 0 /\ Head(text) = NEWLINE THEN trimStart(Tail(text)) ELSE text

RECURSIVE trimEnd(_)
trimEnd(text) ==
  IF Len(text) > 0 /\ text[Len(text)] = NEWLINE
    THEN trimEnd(SubSeq(text, 1, Len(text) - 1))
    ELSE text

trim(text) == trimEnd(trimStart(text))

\* values[k] of an array of strings: undefined beyond its end
ValueAt(values, k) == IF k < Len(values) THEN Str(values[k + 1]) ELSE Nullish

\* parseInt(x): the number a decimal string denotes, NaN for undefined and
\* for a string that does not start with a digit ('N/A', '', '"')
parseInt(x) ==
  IF x.tag = "str" /\ \E v \in 0..MaxViewLatency : x.s = <<ToString(v)>>
    THEN Num(CHOOSE v \in 0..MaxViewLatency : x.s = <<ToString(v)>>)
    ELSE NaN

UNDEFINED == [tag |-> "undefined", v |-> 0]

(* ---- readCSV ---------------------------------------------------------- *)

\* The position of a network among the keys of results, 0 when absent.
KeyIndex(results_, network) ==
  IF \E k \in 1..Len(results_) : results_[k].network = network
    THEN CHOOSE k \in 1..Len(results_) : results_[k].network = network
    ELSE 0

\* The loop of readCSV over lines[1..]: results after the lines from k on.
RECURSIVE collect(_, _, _)
collect(lines, k, results_) ==
  IF k > Len(lines) THEN results_
  ELSE
    LET values == split(lines[k], COMMA)
        network == values[1]
        latency == parseInt(ValueAt(values, 4))
        status == ValueAt(values, 5)
        known == IF KeyIndex(results_, network) = 0
                   THEN Append(results_, [network |-> network,
                                          latencies |-> <<>>, failures |-> 0])
                   ELSE results_
        at == KeyIndex(known, network)
    IN collect(lines, k + 1,
         IF status = Str(<<"success">>)
           THEN [known EXCEPT ![at].latencies = Append(@, latency)]
           ELSE [known EXCEPT ![at].failures = @ + 1])

\* The summary of the library, as JavaScript values.
libraryStats(st) == [fld \in DOMAIN st |-> Num(st[fld])]

\* The orders [...latencies].sort((a, b) => a - b) may leave an array in:
\* ascending order for numbers; any order when an entry is NaN, since the
\* comparator is then inconsistent and the order implementation-defined.
SortOrders(arr) ==
  {[k \in 1..Len(arr) |-> arr[f[k]]] :
     f \in {g \in [1..Len(arr) -> 1..Len(arr)] :
              \A a, b \in 1..Len(arr) : a # b => g[a] # g[b]}}

HasNaN(arr) == \E k \in 1..Len(arr) : arr[k].tag = "nan"

\* Math.round((x + y) / 2)
RoundedMean(x, y) ==
  IF x.tag = "nan" \/ y.tag = "nan" THEN NaN ELSE Num(MathRound(x.v + y.v, 2))

\* The stand-alone viewer's calculateStats on an array that holds a NaN:
\* sum, average and stdDev are NaN, txPerSecond is 0 (NaN > 0 is false),
\* the other fields are read from the sorted array.
standaloneStatsOfNaN(sorted) ==
  LET c == Len(sorted)
      mid == c \div 2
  IN [count |-> Num(c), average |-> NaN, txPerSecond |-> Num(0),
      median |-> IF c % 2 = 0 THEN RoundedMean(sorted[mid], sorted[mid + 1])
                 ELSE sorted[mid + 1],
      stdDev |-> NaN, min |-> sorted[1], max |-> sorted[c],
      p90 |-> viewerPercentile(sorted, 90),
      p95 |-> viewerPercentile(sorted, 95),
      p99 |-> viewerPercentile(sorted, 99)]

\* { ...calculateStats(data.latencies), failures: data.failures } of the
\* stand-alone viewer: spreading null adds no field, so every field but
\* failures is undefined when there is no latency.
standaloneStats(latencies_, failures_) ==
  LET own == IF Len(latencies_) = 0
               THEN {[fld \in StatsFields \ {"failures"} |-> UNDEFINED]}
             ELSE IF HasNaN(latencies_)
               THEN {standaloneStatsOfNaN(sorted) :
                       sorted \in SortOrders(latencies_)}
             ELSE {libraryStats(
                     viewerCalculateStats(validLatenciesOf(latencies_))[1])}
  IN {[fld \in StatsFields |->
         IF fld = "failures" THEN Num(failures_) ELSE st[fld]] : st \in own}

\* The summaries one network's data may be reduced to.
viewerSummaries(program, data) ==
  IF program = "standalone"
    THEN standaloneStats(data.latencies, data.failures)
    ELSE {libraryStats(st) : st \in calculateStats(data.latencies, data.failures)}

\* readCSV(filePath): the summaries of the networks met in the file, in
\* the order of their first row.
readCSV(program, content) ==
  LET lines == split(trim(content), NEWLINE)
      results_ == collect(lines, 2, <<>>)
      choices == UNION {viewerSummaries(program, results_[k]) :
                          k \in 1..Len(results_)}
  IN {[k \in 1..Len(results_) |->
         [network |-> results_[k].network, stats |-> f[k]]] :
       f \in {g \in [1..Len(results_) -> choices] :
                \A k \in 1..Len(results_) :
                  g[k] \in viewerSummaries(program, results_[k])}}

(* ---- displayTable of a report ----------------------------------------- *)

\* String(x) of a number, NaN or undefined
StringOf(x) ==
  IF x.tag = "num" THEN ToString(x.v)
  ELSE IF x.tag = "nan" THEN "NaN" ELSE "undefined"

\* String(data.txPerSecond || 0), txPerSecond held in hundredths
StringOfRate(x) ==
  IF x.tag = "num" /\ x.v # 0 THEN StringOfHundredths(x.v) ELSE "0"

\* network.toUpperCase()
RECURSIVE upperCaseOf(_)
upperCaseOf(text) ==
  IF Len(text) = 0 THEN ""
  ELSE toUpperCase(Head(text)) \o upperCaseOf(Tail(text))

\* One data row of displayTable.
viewRow(entry) ==
  LET data == entry.stats
      cells == << upperCaseOf(entry.network), StringOf(data.count),
                  StringOf(data.failures), StringOf(data.average),
                  StringOfRate(data.txPerSecond), StringOf(data.median),
                  StringOf(data.stdDev), StringOf(data.min),
                  StringOf(data.max), StringOf(data.p90), StringOf(data.p95),
                  StringOf(data.p99) >>
  IN [col \in 1..Len(viewerWidths) |-> padEnd(cells[col], viewerWidths[col])]

(* ---- the inputs of a report ------------------------------------------- *)

ViewNetworkNames == <<"ethereum", "solana">>

\* A transaction with a measured latency, one finalised within the same
\* millisecond, one that failed before it was sent and one whose error
\* message spans two lines.
ViewRecords ==
  { CsvRecord(Str(<<"0xabc">>), Num(MaxViewLatency), "success", Nullish),
    CsvRecord(Str(<<"0xabc">>), Num(0), "success", Nullish),
    CsvRecord(Nullish, NULL, "failed", Str(<<"e", COMMA, QUOTE>>)),
    CsvRecord(Str(<<"0xabc">>), Num(MaxViewLatency), "failed",
              Str(<<"e", NEWLINE, "e">>)) }

RECURSIVE ViewRecordLists(_)
ViewRecordLists(n) ==
  IF n = 0 THEN {<<>>}
  ELSE LET shorter == ViewRecordLists(n - 1)
       IN shorter \cup {Append(l, r) : l \in shorter, r \in ViewRecords}

(* ---- the viewing of a report as a state machine ----------------------- *)

Viewers == {"standalone", "library"}

InitView ==
  /\ viewer \in Viewers
  /\ viewReports \in
       {[k \in 1..Len(ViewNetworkNames) |->
           [network |-> ViewNetworkNames[k], results |-> lists[k]]] :
        lists \in [1..Len(ViewNetworkNames) -> ViewRecordLists(MaxViewRows)]}
  /\ viewContent = EmptyString
  /\ viewStats = <<>>
  /\ viewOutput = <<>>
  /\ viewPc = "report"
  /\ StatsIdle
  /\ RunIdle
  /\ RetryIdle
  /\ CsvIdle
  /\ SaveIdle
  /\ TableIdle
  /\ MainIdle
  /\ AppendIdle

\* saveResults writes the CSV file of the report.
WriteReport ==
  /\ viewPc = "report"
  /\ viewContent' = assembleCSV(viewReports, 1, EmptyString)
  /\ viewPc' = "written"
  /\ UNCHANGED <<viewer, viewReports, viewStats, viewOutput, notViewVars>>

\* The viewer reads the file.
ReadCSV ==
  /\ viewPc = "written"
  /\ viewStats' \in readCSV(viewer, viewContent)
  /\ viewPc' = "read"
  /\ UNCHANGED <<viewer, viewReports, viewContent, viewOutput, notViewVars>>

\* The viewer prints the rows of the table.
ViewTable ==
  /\ viewPc = "read"
  /\ viewOutput' = [k \in 1..Len(viewStats) |-> viewRow(viewStats[k])]
  /\ viewPc' = "displayed"
  /\ UNCHANGED <<viewer, viewReports, viewContent, viewStats, notViewVars>>

NextView ==
  \/ WriteReport
  \/ ReadCSV
  \/ ViewTable

SpecView == InitView /\ [][NextView]_vars

(* ---- what the claims about the viewer speak about --------------------- *)

ViewRead == viewPc \in {"read", "displayed"}

\* The number of records of a status among the records written for the
\* k-th network of the report.
WrittenWith(k, st) ==
  Len(SelectSeq(viewReports[k].results, LAMBDA r : r.status = st))

\* The positions of the summaries the viewer holds for a network name.
SummariesOf(name) ==
  {j \in 1..Len(viewStats) : viewStats[j].network = <<name>>}

\* C25: a network whose rows hold no successful transaction gets a summary
\* with count 0, failures equal to its number of rows and every other
\* numeric field 0, never undefined, null or NaN, and its row is printed.
C25_AllFailedIsAllZero ==
  ViewRead =>
    \A k \in 1..Len(viewReports) :
      (Len(viewReports[k].results) > 0 /\ WrittenWith(k, "success") = 0) =>
        /\ SummariesOf(viewReports[k].network) # {}
        /\ \A j \in SummariesOf(viewReports[k].network) :
             /\ viewStats[j].stats.failures = Num(Len(viewReports[k].results))
             /\ \A fld \in StatsFields \ {"failures"} :
                  viewStats[j].stats[fld] = Num(0)
             /\ viewPc = "displayed" =>
                  viewOutput[j][2] = padEnd("0", viewerWidths[2])

\* C28: the viewer's readCSV recovers from the CSV text of a report the
\* names of its networks and, for every network, count equal to the number
\* of its records with status success and failures equal to the number of
\* its records with status failed, whatever the records contain.
C28_CsvRoundTrip ==
  ViewRead =>
    /\ {viewStats[j].network : j \in 1..Len(viewStats)} =
         {<<viewReports[k].network>> : k \in 1..Len(viewReports)}
    /\ \A k \in 1..Len(viewReports) :
         \A j \in SummariesOf(viewReports[k].network) :
           /\ viewStats[j].stats.count = Num(WrittenWith(k, "success"))
           /\ viewStats[j].stats.failures = Num(WrittenWith(k, "failed"))

(***************************************************************************)
(* appendCSV of utils/output: a CSV file on one path grows by blocks, each *)
(* the text resultsToCSV made of the records of one network.               *)
(***************************************************************************)

(* ---- bounds of the append model --------------------------------------- *)

MaxAppends == 3

MaxAppendRows == 1

(* ---- appendCSV -------------------------------------------------------- *)

\* appendCSV(filePath, csvContent, includeHeader): the file afterwards.
appendCSV(file, blockCSV, includeHeader) ==
  LET lines == split(blockCSV, NEWLINE)
      content == IF includeHeader THEN blockCSV
                 ELSE JoinWith(Tail(lines), NEWLINE)
  IN IF file.exists
       THEN [exists |-> TRUE, text |-> file.text \o <<NEWLINE>> \o content]
       ELSE [exists |-> TRUE, text |-> blockCSV]

(* ---- the inputs of a call --------------------------------------------- *)

AppendRecords ==
  { PlainRecord,
    CsvRecord(Nullish, NULL, "failed", Str(<<"e", COMMA, NEWLINE>>)) }

RECURSIVE AppendRecordLists(_)
AppendRecordLists(n) ==
  IF n = 0 THEN {<<>>}
  ELSE LET shorter == AppendRecordLists(n - 1)
       IN shorter \cup {Append(l, r) : l \in shorter, r \in AppendRecords}

(* ---- the file as a state machine -------------------------------------- *)

\* Before the first call the path holds no file or an empty one.
InitAppend ==
  /\ appFile \in {[exists |-> FALSE, text |-> EmptyString],
                  [exists |-> TRUE, text |-> EmptyString]}
  /\ appExisted = appFile.exists
  /\ appBlocks = <<>>
  /\ appFlags = <<>>
  /\ StatsIdle
  /\ RunIdle
  /\ RetryIdle
  /\ CsvIdle
  /\ SaveIdle
  /\ TableIdle
  /\ MainIdle
  /\ ViewIdle

\* One call of appendCSV with the block of a network's records.
AppendCSV(rs, includeHeader) ==
  /\ Len(appBlocks) < MaxAppends
  /\ appFile' = appendCSV(appFile, resultsToCSV(rs, <<"ethereum">>),
                          includeHeader)
  /\ appBlocks' = Append(appBlocks, rs)
  /\ appFlags' = Append(appFlags, includeHeader)
  /\ UNCHANGED <<appExisted, notAppendVars>>

NextAppend ==
  \E rs \in AppendRecordLists(MaxAppendRows), includeHeader \in BOOLEAN :
    AppendCSV(rs, includeHeader)

SpecAppend == InitAppend /\ [][NextAppend]_vars

(* ---- what the claims about appendCSV speak about ---------------------- *)

\* The cells of the data rows of the first k blocks, in call order.
RECURSIVE RowsOfBlocks(_)
RowsOfBlocks(k) ==
  IF k = 0 THEN <<>>
  ELSE RowsOfBlocks(k - 1) \o
         [j \in 1..Len(appBlocks[k]) |-> csvRow(appBlocks[k][j], <<"ethereum">>)]

\* Only the first call may have passed includeHeader = true.
HeaderOnlyFirst == \A k \in 2..Len(appFlags) : ~appFlags[k]

\* C29: after any sequence of appendCSV calls on one path in which only the
\* first may pass includeHeader = true, the file is one header line followed
\* by the data rows of every block in call order, with no repeated header
\* and no row lost, whether or not the file existed before the first call.
C29_OneHeaderThenEveryRow ==
  (Len(appBlocks) > 0 /\ HeaderOnlyFirst) =>
    ParseCSV(appFile.text) = <<csvHeaders>> \o RowsOfBlocks(Len(appBlocks))

====
